---- MODULE Spec2Model ----
(***************************************************************************)
(* Model of the mcporter client runtime: the connect-with-auth loop        *)
(* (src/runtime/oauth.ts) and the client context builder                   *)
(* (src/runtime/transport.ts).                                             *)
(***************************************************************************)
EXTENDS Integers, Sequences, FiniteSets, TLC

(* ------------------------------ bounds -------------------------------- *)

\* largest explicit value of maxOAuthAttempts / maxAttempts that is explored
MaxN == 2

\* how many milliseconds a wait without a timer is followed
MaxElapsed == 2

(* ------------------------- program constants -------------------------- *)

DEFAULT_OAUTH_CODE_TIMEOUT_MS == 60000

\* default of the maxAttempts option, oauth.ts line 32
DEFAULT_MAX_ATTEMPTS == 3

(* --------------------------- option values ---------------------------- *)

\* a JavaScript number | undefined; NaN and +-Infinity are "nonfinite"
Undefined == [tag |-> "undefined", val |-> 0]
Num(v) == [tag |-> "number", val |-> v]
NonFinite == [tag |-> "nonfinite", val |-> 0]

(* ------------------------------ errors -------------------------------- *)

\* type: where the error was raised; id: ordinal of the connect call that
\* raised it (or that it wraps); msg401: the message matches one of the
\* unauthorized patterns; status401: a status/statusCode property equals 401
MkError(type, id, msg401, status401, timeoutMs) ==
  [type |-> type, id |-> id, msg401 |-> msg401, status401 |-> status401,
   serverName |-> "", timeoutMs |-> timeoutMs]

NoError == [type |-> "none", id |-> 0, msg401 |-> FALSE, status401 |-> FALSE,
            serverName |-> "", timeoutMs |-> 0]

\* kind assigned by the error classifier
analyzeConnectionError(error) ==
  IF error.msg401 \/ error.status401 THEN "auth" ELSE "other"

isUnauthorizedError_Negated(error) == analyzeConnectionError(error) # "auth"

\* isUnauthorizedError: issue.kind === 'auth'
isUnauthorizedError(error) == analyzeConnectionError(error) = "auth"

\* outcomes of one client.connect(transport)
ConnectOutcomes == {"ok", "unauthorized-message", "unauthorized-status", "other"}

ConnectError(n, out) ==
  MkError("connect", n, out = "unauthorized-message", out = "unauthorized-status", 0)

\* new Error(`OAuth flow failed before a browser authorization could begin. ...
\* Original error: ${detail}`): the message embeds the original message, the
\* status property is not copied
FlowNotStartedError(error) ==
  MkError("flow-not-started", error.id, error.msg401, FALSE, 0)

\* server names that are explored; the second one is matched by the classifier
ServerNames == {"x", "HTTP 401"}

\* the error classifier matches the message of an error that quotes this name
NameMatches401(name) == name = "HTTP 401"

\* new OAuthTimeoutError(serverName, timeoutMs); the message quotes the name
OAuthTimeoutError(serverName, timeoutMs) ==
  [MkError("OAuthTimeoutError", 0, NameMatches401(serverName), FALSE, timeoutMs)
     EXCEPT !.serverName = serverName]

(* ------------------------- parseOAuthTimeout -------------------------- *)

Digits == {"0", "1", "2", "3", "4", "5", "6", "7", "8", "9"}

DigitVal(c) ==
  CASE c = "0" -> 0 [] c = "1" -> 1 [] c = "2" -> 2 [] c = "3" -> 3
    [] c = "4" -> 4 [] c = "5" -> 5 [] c = "6" -> 6 [] c = "7" -> 7
    [] c = "8" -> 8 [] c = "9" -> 9

RECURSIVE SkipSpace(_)
SkipSpace(s) == IF s # <<>> /\ Head(s) = " " THEN SkipSpace(Tail(s)) ELSE s

RECURSIVE ParseDigits(_, _, _)
ParseDigits(s, acc, seen) ==
  IF s # <<>> /\ Head(s) \in Digits
    THEN ParseDigits(Tail(s), acc * 10 + DigitVal(Head(s)), TRUE)
    ELSE IF seen THEN Num(acc) ELSE NonFinite

\* Number.parseInt(raw, 10) on a string given as a sequence of characters
parseInt10(chars) ==
  LET s == SkipSpace(chars)
      neg == s # <<>> /\ Head(s) = "-"
      body == IF s # <<>> /\ Head(s) \in {"-", "+"} THEN Tail(s) ELSE s
      r == ParseDigits(body, 0, FALSE)
  IN IF r.tag = "number" /\ neg THEN Num(0 - r.val) ELSE r

UndefinedString == [tag |-> "undefined", chars |-> <<>>]
Str(chars) == [tag |-> "string", chars |-> chars]

parseOAuthTimeout_AcceptAny(raw) ==
  IF raw.tag = "undefined" \/ raw.chars = <<>>
    THEN DEFAULT_OAUTH_CODE_TIMEOUT_MS
    ELSE LET parsed == parseInt10(raw.chars)
         IN IF parsed.tag # "number" THEN DEFAULT_OAUTH_CODE_TIMEOUT_MS ELSE parsed.val

parseOAuthTimeout(raw) ==
  IF raw.tag = "undefined" \/ raw.chars = <<>>
    THEN DEFAULT_OAUTH_CODE_TIMEOUT_MS
    ELSE LET parsed == parseInt10(raw.chars)
         IN IF parsed.tag # "number" \/ parsed.val <= 0
              THEN DEFAULT_OAUTH_CODE_TIMEOUT_MS
              ELSE parsed.val

\* values of MCPORTER_OAUTH_TIMEOUT_MS that are explored
RawTimeouts ==
  {UndefinedString, Str(<<>>), Str(<<"0">>), Str(<<"-", "1">>), Str(<<"x">>),
   Str(<<"2">>), Str(<<" ", "1", "m", "s">>)}

(* ------------------------------- state -------------------------------- *)

VARIABLES
  entry,               \* exported function that was called
  definition,          \* the ServerDefinition argument
  options,             \* the options argument
  timeoutSource,       \* "option": oauthTimeoutMs given by the caller; "env": resolveOAuthTimeoutFromEnv()
  pc,                  \* position in createClientContext / connectWithAuth
  activeDefinition,    \* let activeDefinition
  iterations,          \* number of times the body of the HTTP while(true) loop was entered
  oauthSession,        \* let oauthSession: index into sessions, 0 = undefined
  sessions,            \* every OAuthSession created so far
  transports,          \* every transport constructed so far
  cwa,                 \* locals of the running connectWithAuth call
  timer,               \* the setTimeout of waitForAuthorizationCodeWithTimeout
  elapsed,             \* milliseconds since the current wait began
  primaryError,        \* error caught from attemptConnect() / the stdio connect
  result,              \* what the called function returned or threw
  connectCalls,        \* client.connect calls so far
  unauthorizedReconnects, \* client.connect calls made because an earlier one was unauthorized
  promotedCalls,       \* definitions passed to options.onDefinitionPromoted
  timedOut,            \* whether an OAuthTimeoutError was raised, and the counts at that moment
  promote,             \* one call of maybeEnableOAuth: its arguments, the probe in flight, its result
  provider,            \* fields of the PersistentOAuthClientProvider and the arguments of create
  listener,            \* the http.Server of the provider
  deferreds,           \* every Deferred<string> made by createDeferred
  handlers,            \* request handlers suspended at await this.persistence.readState()
  lastResponse,        \* the request the handler answered last, its answer and its effect
  closing,             \* close() calls: in flight, completed, and what the last one did
  vault,               \* the persisted artifacts of the server
  callCount,           \* number of calls made so far, per operation of the provider
  runtime,             \* the runtime: cached contexts, per-server mutex, the tasks calling it
  build,               \* createClientContext before and around its body: cached auth, headers, process.env
  scopeCall,           \* one call of resolveOAuthScope: its options and what it returned
  refresh,             \* one call of tryRefreshTokens: the vault entry, the requests made, its result
  toolCall,            \* one call of attemptCall: the tool call in flight, the timer, runtime.close
  listing,             \* one run of handleList: the list tasks, their rows, runtime.close calls
  toolFilter,          \* one call of listTools with allowedTools / blockedTools: the tools returned
  pick,                \* one call of callTool with a resultMapping: the response and the result
  envRace              \* concurrent createClientContext builds and the one process.env they share

\* the variables of createClientContext / connectWithAuth
builderVars == <<entry, definition, options, timeoutSource, pc, activeDefinition, iterations,
                 oauthSession, sessions, transports, cwa, timer, elapsed, primaryError,
                 result, connectCalls, unauthorizedReconnects, promotedCalls, timedOut>>

\* the variables of the other components
promoteVars == <<promote>>

sessionVars == <<provider, listener, deferreds, handlers, lastResponse, closing, vault, callCount>>

runtimeVars == <<runtime>>

buildVars == <<build>>

utilVars == <<scopeCall, refresh, toolCall>>

commandVars == <<listing, toolFilter, pick, envRace>>

otherVars == <<promoteVars, sessionVars, runtimeVars, buildVars, utilVars, commandVars>>

\* what the actions of one component leave alone
notPromote == <<commandVars, builderVars, sessionVars, runtimeVars, buildVars, utilVars>>

notSession == <<commandVars, builderVars, promoteVars, runtimeVars, buildVars, utilVars>>

notRuntime == <<commandVars, builderVars, promoteVars, sessionVars, buildVars, utilVars>>

notScope == <<commandVars, builderVars, promoteVars, sessionVars, runtimeVars, buildVars, refresh, toolCall>>

notRefresh == <<commandVars, builderVars, promoteVars, sessionVars, runtimeVars, buildVars, scopeCall, toolCall>>

notCall == <<commandVars, builderVars, promoteVars, sessionVars, runtimeVars, buildVars, scopeCall, refresh>>

notList == <<builderVars, promoteVars, sessionVars, runtimeVars, buildVars, utilVars,
             toolFilter, pick, envRace>>

notFilter == <<builderVars, promoteVars, sessionVars, runtimeVars, buildVars, utilVars,
               listing, pick, envRace>>

notPick == <<builderVars, promoteVars, sessionVars, runtimeVars, buildVars, utilVars,
             listing, toolFilter, envRace>>

notEnvRace == <<builderVars, promoteVars, sessionVars, runtimeVars, buildVars, utilVars,
                listing, toolFilter, pick>>

vars == <<builderVars, otherVars>>

Codes == {"code-a", "code-b"}

NotTimedOut == [fired |-> FALSE, connectCalls |-> 0, transports |-> 0, promotions |-> 0]

NoTimer == [armed |-> FALSE, deadline |-> 0]

IdleCwa ==
  [caller |-> "none", transport |-> 0, session |-> 0, attempt |-> 0,
   error |-> NoError, code |-> "", finishAuthArg |-> "",
   connects |-> 0, waits |-> 0, finishAuthCalls |-> 0, finishAuthOk |-> 0,
   reconnects |-> 0, afterUnauthorized |-> FALSE, lastStep |-> "none", outcome |-> "running", thrown |-> NoError]

Pending ==
  [status |-> "pending", error |-> NoError, transport |-> 0, oauthSession |-> 0,
   definition |-> [name |-> "", kind |-> "", auth |-> ""]]

NewSession == [closed |-> FALSE, closeCalls |-> 0, authorizationStarted |-> FALSE]

NewTransport(kind, authProvider, hasFinishAuth) ==
  [kind |-> kind, closed |-> FALSE, closeCalls |-> 0, authProvider |-> authProvider,
   hasFinishAuth |-> hasFinishAuth]

(* ----------------------- decisions of the code ------------------------ *)

\* const { maxAttempts = 3, oauthTimeoutMs = DEFAULT_OAUTH_CODE_TIMEOUT_MS } = options
EffectiveMaxAttempts(opts) ==
  IF opts.maxOAuthAttempts.tag = "undefined" THEN DEFAULT_MAX_ATTEMPTS
  ELSE opts.maxOAuthAttempts.val

EffectiveTimeout(opts) ==
  IF opts.oauthTimeoutMs.tag = "undefined" THEN Num(DEFAULT_OAUTH_CODE_TIMEOUT_MS)
  ELSE opts.oauthTimeoutMs

AttemptsExhausted_OffByOne(attempt, maxAttempts) == attempt > maxAttempts + 1

\* if (attempt > maxAttempts) throw error
AttemptsExhausted(attempt, maxAttempts) == attempt > maxAttempts

TimerArmed_Inverted(timeoutMs) == ~(timeoutMs.tag = "number" /\ timeoutMs.val > 0)

\* !(!Number.isFinite(timeoutMs) || timeoutMs <= 0)
TimerArmed(timeoutMs) == timeoutMs.tag = "number" /\ timeoutMs.val > 0

DidStartAuthorization_AlwaysTrue(ss, s) == TRUE

\* session.didStartAuthorization(): return this.authorizationStarted
DidStartAuthorization(ss, s) == ss[s].authorizationStarted

shouldEstablishOAuth_IgnoreZero(def, opts) == def.auth = "oauth"

\* activeDefinition.auth === 'oauth' && options.maxOAuthAttempts !== 0
shouldEstablishOAuth(def, opts) ==
  def.auth = "oauth" /\ opts.maxOAuthAttempts # Num(0)

maybeEnableOAuth_AlsoOAuth(def) ==
  IF def.kind # "http" THEN [promoted |-> FALSE, def |-> def]
  ELSE [promoted |-> TRUE, def |-> [def EXCEPT !.auth = "oauth"]]

\* maybeEnableOAuth: the promoted definition, or promoted = FALSE for undefined
maybeEnableOAuth(def) ==
  IF def.auth = "oauth" THEN [promoted |-> FALSE, def |-> def]
  ELSE IF def.kind # "http" THEN [promoted |-> FALSE, def |-> def]
  ELSE [promoted |-> TRUE, def |-> [def EXCEPT !.auth = "oauth"]]

IsOAuthTimeoutError_Never(error) == FALSE

\* error instanceof OAuthTimeoutError
IsOAuthTimeoutError(error) == error.type = "OAuthTimeoutError"

\* options.maxOAuthAttempts !== 0
AttemptsAllowed(opts) == opts.maxOAuthAttempts # Num(0)

onDefinitionPromoted_Dropped(calls, promoted) == calls

\* options.onDefinitionPromoted?.(promoted): the calls the callback has received
onDefinitionPromoted(calls, promoted) == Append(calls, promoted)

\* materializeHeaders(command.headers, name): resolves the placeholders of the
\* header values; a placeholder that cannot be resolved is rejected
MaterializeOutcomes == {"ok", "throw"}

\* session.close(): provider.close() rejects a pending wait and closes the listener
CloseSession(ss, i) ==
  IF i = 0 THEN ss
  ELSE [ss EXCEPT ![i].closed = TRUE, ![i].closeCalls = @ + 1]

\* closeTransportAndWait(logger, transport).catch(() => {})
closeTransportAndWait(ts, i) ==
  [ts EXCEPT ![i].closed = TRUE, ![i].closeCalls = @ + 1]

(* -------------------------------- Init -------------------------------- *)

MaxAttemptOptions == {Undefined} \cup {Num(n) : n \in 0..MaxN}

\* oauthTimeoutMs as a caller may pass it, and as resolveOAuthTimeoutFromEnv yields it
TimeoutChoices ==
  {<<"option", t>> : t \in {Undefined, Num(0), Num(1), NonFinite}}
    \cup {<<"env", Num(parseOAuthTimeout(raw))>> : raw \in RawTimeouts}

InitCommon ==
  /\ \E m \in MaxAttemptOptions, tc \in TimeoutChoices :
       /\ options = [maxOAuthAttempts |-> m, oauthTimeoutMs |-> tc[2]]
       /\ timeoutSource = tc[1]
  /\ activeDefinition = definition
  /\ iterations = 0
  /\ oauthSession = 0
  /\ timer = NoTimer
  /\ elapsed = 0
  /\ primaryError = NoError
  /\ result = Pending
  /\ connectCalls = 0
  /\ unauthorizedReconnects = 0
  /\ promotedCalls = <<>>
  /\ timedOut = NotTimedOut

\* createClientContext(definition, logger, clientInfo, options)
InitBuild ==
  /\ entry = "createClientContext"
  /\ \E name \in ServerNames, kind \in {"stdio", "http"}, auth \in {"none", "oauth"} :
       definition = [name |-> name, kind |-> kind, auth |-> auth]
  /\ pc = IF definition.kind = "stdio" THEN "stdio" ELSE "loop"
  /\ sessions = <<>>
  /\ transports = <<>>
  /\ cwa = IdleCwa
  /\ InitCommon

\* connectWithAuth(client, transport, session, logger, options) called directly
InitDirect ==
  /\ entry = "connectWithAuth"
  /\ \E name \in ServerNames : definition = [name |-> name, kind |-> "http", auth |-> "oauth"]
  /\ pc = "cwa_connect"
  /\ \E hasSession \in BOOLEAN, started \in BOOLEAN, fin \in BOOLEAN :
       /\ (started => hasSession)
       /\ sessions = IF hasSession
                       THEN <<[NewSession EXCEPT !.authorizationStarted = started]>>
                       ELSE <<>>
       /\ transports = <<NewTransport("custom", IF hasSession THEN 1 ELSE 0, fin)>>
       /\ cwa = [IdleCwa EXCEPT !.caller = "direct", !.transport = 1,
                                !.session = IF hasSession THEN 1 ELSE 0]
  /\ InitCommon

\* no build and no connectWithAuth call is under way
BuilderIdle ==
  /\ entry = "none"
  /\ definition = [name |-> "x", kind |-> "http", auth |-> "none"]
  /\ options = [maxOAuthAttempts |-> Undefined, oauthTimeoutMs |-> Undefined]
  /\ timeoutSource = "option"
  /\ pc = "done"
  /\ activeDefinition = definition
  /\ iterations = 0
  /\ oauthSession = 0
  /\ sessions = <<>>
  /\ transports = <<>>
  /\ cwa = IdleCwa
  /\ timer = NoTimer
  /\ elapsed = 0
  /\ primaryError = NoError
  /\ result = Pending
  /\ connectCalls = 0
  /\ unauthorizedReconnects = 0
  /\ promotedCalls = <<>>
  /\ timedOut = NotTimedOut

\* no call of maybeEnableOAuth on its own is under way
PromoteIdle == [phase |-> "idle"]

\* a URL; port 0: the URL names no port
Url(host, port, path) == [host |-> host, port |-> port, path |-> path]

NoUrl == Url("", 0, "")

\* no artifact is persisted and saveTokens has not been called
EmptyVault ==
  [state |-> "", codeVerifier |-> "", tokens |-> "", clientInfo |-> "",
   saveTokensCalls |-> 0, verifierAfterSave |-> "<none>"]

\* no OAuth session on its own has been created
SessionIdle ==
  /\ provider = [phase |-> "none", override |-> NoUrl, redirectUrl |-> NoUrl,
                 redirect_uris |-> {}, authorizationStarted |-> FALSE,
                 authorizationDeferred |-> 0, server |-> FALSE]
  /\ listener = [state |-> "unbound", host |-> "", port |-> 0, listenCalls |-> <<>>,
                 listenResults |-> <<>>, closeCalls |-> 0]
  /\ deferreds = <<>>
  /\ handlers = <<>>
  /\ lastResponse = [seq |-> 0]
  /\ closing = [inFlight |-> 0, started |-> 0, completed |-> 0, last |-> [seq |-> 0]]
  /\ vault = EmptyVault
  /\ callCount = [redirects |-> 0, waits |-> 0, requests |-> 0, closes |-> 0]

\* servers of the configuration and the tasks that call the runtime
Servers == {"a", "b"}

Tasks == {"t1", "t2"}

\* uncached: no context of the server was cached when the call began
IdleTask ==
  [pc |-> "idle", op |-> "", server |-> "", ctx |-> 0, started |-> 0, uncached |-> FALSE,
   failed |-> FALSE]

\* a runtime that was created and has connected to nothing
RuntimeIdle ==
  [clients |-> [s \in Servers |-> 0],
   lock |-> [s \in Servers |-> "free"],
   live |-> {},
   created |-> [s \in Servers |-> 0],
   onWire |-> [s \in Servers |-> {}],
   task |-> [t \in Tasks |-> IdleTask]]

\* the variables of process.env that are followed
EnvVars == {"A", "B"}

\* createClientContext is entered at its body: allowCachedAuth is not set, the
\* definition has no headers and no env
BuildIdle ==
  [phase |-> "idle", allowCachedAuth |-> FALSE, cached |-> "unread",
   existingHeaders |-> {}, headers |-> {}, env |-> [v \in EnvVars |-> "<none>"],
   processEnv |-> [v \in EnvVars |-> "<unset>"],
   envBefore |-> [v \in EnvVars |-> "<unset>"]]

\* resolveOAuthScope, tryRefreshTokens and attemptCall have not been called
ScopeIdle == [phase |-> "idle"]

RefreshIdle == [phase |-> "idle"]

CallIdle == [phase |-> "idle"]

\* handleList, the tool filter, the result mapping and concurrent builds are
\* not in use
ListIdle == [phase |-> "idle"]

FilterIdle == [phase |-> "idle"]

PickIdle == [phase |-> "idle"]

EnvRaceIdle == [phase |-> "idle"]

CommandsIdle ==
  /\ listing = ListIdle
  /\ toolFilter = FilterIdle
  /\ pick = PickIdle
  /\ envRace = EnvRaceIdle

UtilitiesIdle ==
  /\ scopeCall = ScopeIdle /\ refresh = RefreshIdle /\ toolCall = CallIdle
  /\ CommandsIdle

OthersIdle ==
  /\ promote = PromoteIdle
  /\ SessionIdle
  /\ runtime = RuntimeIdle
  /\ build = BuildIdle
  /\ UtilitiesIdle

Init == (InitBuild \/ InitDirect) /\ OthersIdle

(* ------------------------- connectWithAuth ---------------------------- *)

\* connectWithAuth(client, transport, session, ...) is entered: attempt = 0
\* afterUnauthorized: the caller makes this call because an unauthorized failure preceded it
EnterConnectWithAuth(caller, t, s, afterUnauthorized) ==
  [IdleCwa EXCEPT !.caller = caller, !.transport = t, !.session = s,
                  !.afterUnauthorized = afterUnauthorized]

Throw(c, error) == [c EXCEPT !.outcome = "throw", !.thrown = error]

\* one pass of the while(true) body up to the next await: client.connect and,
\* on failure, the checks of the catch block (lines 38-61)
CwaConnect ==
  /\ pc = "cwa_connect"
  /\ \E out \in ConnectOutcomes, redirect \in BOOLEAN :
       LET n == connectCalls + 1
           error == ConnectError(n, out)
           ap == transports[cwa.transport].authProvider
           \* the SDK transport calls authProvider.redirectToAuthorization
           \* before it raises the unauthorized error
           ss == IF redirect
                   THEN [sessions EXCEPT ![ap].authorizationStarted = TRUE]
                   ELSE sessions
           c == [cwa EXCEPT !.connects = @ + 1, !.lastStep = "connect",
                            !.reconnects = IF cwa.connects > 0 THEN @ + 1 ELSE @]
       IN /\ redirect => (ap # 0 /\ out # "ok" /\ isUnauthorizedError(error))
          /\ connectCalls' = n
          /\ unauthorizedReconnects' =
               IF cwa.connects > 0 \/ cwa.afterUnauthorized
                 THEN unauthorizedReconnects + 1 ELSE unauthorizedReconnects
          /\ sessions' = ss
          /\ IF out = "ok"
               THEN /\ cwa' = [c EXCEPT !.outcome = "ok"]
                    /\ pc' = "cwa_return"
                    /\ UNCHANGED <<timer, elapsed>>
             ELSE IF ~isUnauthorizedError(error) \/ c.session = 0
               THEN /\ cwa' = Throw([c EXCEPT !.error = error], error)
                    /\ pc' = "cwa_return"
                    /\ UNCHANGED <<timer, elapsed>>
             ELSE IF AttemptsExhausted(c.attempt + 1, EffectiveMaxAttempts(options))
               THEN /\ cwa' = Throw([c EXCEPT !.error = error, !.attempt = @ + 1], error)
                    /\ pc' = "cwa_return"
                    /\ UNCHANGED <<timer, elapsed>>
             ELSE IF ~DidStartAuthorization(ss, c.session)
               THEN /\ cwa' = Throw([c EXCEPT !.error = error, !.attempt = @ + 1],
                                    FlowNotStartedError(error))
                    /\ pc' = "cwa_return"
                    /\ UNCHANGED <<timer, elapsed>>
             ELSE /\ cwa' = [c EXCEPT !.error = error, !.attempt = @ + 1, !.waits = @ + 1]
                  /\ pc' = "cwa_wait"
                  /\ timer' = [armed |-> TimerArmed(EffectiveTimeout(options)),
                               deadline |-> EffectiveTimeout(options).val]
                  /\ elapsed' = 0
  /\ UNCHANGED <<otherVars, entry, definition, options, timeoutSource, activeDefinition, iterations,
                 oauthSession, transports, primaryError, result, promotedCalls, timedOut>>

\* time passes while the code promise is pending; an armed timer fires no
\* later than its deadline
WaitTick ==
  /\ pc = "cwa_wait"
  /\ \/ /\ elapsed < MaxElapsed
        /\ timer.armed => elapsed < timer.deadline
        /\ elapsed' = elapsed + 1
     \/ /\ timer.armed
        /\ elapsed < timer.deadline
        /\ elapsed' = timer.deadline
  /\ UNCHANGED <<otherVars, entry, definition, options, timeoutSource, pc, activeDefinition, iterations,
                 oauthSession, sessions, transports, cwa, timer, primaryError, result,
                 connectCalls, unauthorizedReconnects, promotedCalls, timedOut>>

WaitCode_RetryWithoutFinishAuth ==
  /\ pc = "cwa_wait"
  /\ \E code \in Codes :
       LET c == [cwa EXCEPT !.code = code, !.lastStep = "wait"]
       IN /\ cwa' = c
          /\ pc' = IF transports[cwa.transport].hasFinishAuth
                     THEN "cwa_finishAuth" ELSE "cwa_connect"
  /\ timer' = NoTimer
  /\ elapsed' = 0
  /\ UNCHANGED <<otherVars, entry, definition, options, timeoutSource, activeDefinition, iterations,
                 oauthSession, sessions, transports, primaryError, result, connectCalls,
                 unauthorizedReconnects, promotedCalls, timedOut>>

\* session.waitForAuthorizationCode() resolves with the code of the callback
WaitCode ==
  /\ pc = "cwa_wait"
  /\ \E code \in Codes :
       LET c == [cwa EXCEPT !.code = code, !.lastStep = "wait"]
       IN IF transports[cwa.transport].hasFinishAuth
            THEN /\ cwa' = c
                 /\ pc' = "cwa_finishAuth"
            ELSE \* throw error: the connect error, rethrown by catch (authError)
                 /\ cwa' = Throw(c, cwa.error)
                 /\ pc' = "cwa_return"
  /\ timer' = NoTimer
  /\ elapsed' = 0
  /\ UNCHANGED <<otherVars, entry, definition, options, timeoutSource, activeDefinition, iterations,
                 oauthSession, sessions, transports, primaryError, result, connectCalls,
                 unauthorizedReconnects, promotedCalls, timedOut>>

\* the pending code promise is rejected (error callback, state mismatch, close)
WaitRejected ==
  /\ pc = "cwa_wait"
  /\ \E m \in BOOLEAN :
       cwa' = Throw([cwa EXCEPT !.lastStep = "wait"], MkError("wait-rejected", 0, m, FALSE, 0))
  /\ pc' = "cwa_return"
  /\ timer' = NoTimer
  /\ elapsed' = 0
  /\ UNCHANGED <<otherVars, entry, definition, options, timeoutSource, activeDefinition, iterations,
                 oauthSession, sessions, transports, primaryError, result, connectCalls,
                 unauthorizedReconnects, promotedCalls, timedOut>>

\* the setTimeout callback runs first: reject(new OAuthTimeoutError(displayName, timeoutMs))
WaitTimeout ==
  /\ pc = "cwa_wait"
  /\ timer.armed
  /\ elapsed = timer.deadline
  /\ cwa' = Throw([cwa EXCEPT !.lastStep = "wait"],
                  OAuthTimeoutError(activeDefinition.name, timer.deadline))
  /\ pc' = "cwa_return"
  /\ timedOut' = [fired |-> TRUE, connectCalls |-> connectCalls,
                  transports |-> Len(transports), promotions |-> Len(promotedCalls)]
  /\ timer' = NoTimer
  /\ elapsed' = 0
  /\ UNCHANGED <<otherVars, entry, definition, options, timeoutSource, activeDefinition, iterations,
                 oauthSession, sessions, transports, primaryError, result, connectCalls,
                 unauthorizedReconnects, promotedCalls>>

\* await transport.finishAuth(code); on success the loop goes round again
FinishAuth ==
  /\ pc = "cwa_finishAuth"
  /\ LET c == [cwa EXCEPT !.finishAuthCalls = @ + 1, !.finishAuthArg = cwa.code,
                          !.lastStep = "finishAuth"]
     IN \/ /\ cwa' = [c EXCEPT !.finishAuthOk = @ + 1]
           /\ pc' = "cwa_connect"
        \/ /\ \E m \in BOOLEAN :
                cwa' = Throw(c, MkError("finishAuth-failed", 0, m, FALSE, 0))
           /\ pc' = "cwa_return"
  /\ UNCHANGED <<otherVars, entry, definition, options, timeoutSource, activeDefinition, iterations,
                 oauthSession, sessions, transports, timer, elapsed, primaryError, result,
                 connectCalls, unauthorizedReconnects, promotedCalls, timedOut>>

\* a direct call of connectWithAuth returns or throws to its caller
DirectReturn ==
  /\ pc = "cwa_return"
  /\ cwa.caller = "direct"
  /\ result' = [Pending EXCEPT !.status = IF cwa.outcome = "ok" THEN "ok" ELSE "error",
                               !.error = cwa.thrown]
  /\ pc' = "done"
  /\ UNCHANGED <<otherVars, entry, definition, options, timeoutSource, activeDefinition, iterations,
                 oauthSession, sessions, transports, cwa, timer, elapsed, primaryError,
                 connectCalls, unauthorizedReconnects, promotedCalls, timedOut>>

(* ------------------------ createClientContext ------------------------- *)

\* The cached-token prologue (transport.ts lines 128-154) and withEnvOverrides
\* (line 156) change only the request headers and the process environment,
\* which no action below reads; the actions start at the stdio / HTTP branch.

Returned(t, s) ==
  [Pending EXCEPT !.status = "ok", !.transport = t, !.oauthSession = s,
                  !.definition = activeDefinition]

Thrown(error) == [Pending EXCEPT !.status = "error", !.error = error]

\* stdio branch: new StdioClientTransport(...); await client.connect(transport)
StdioConnect ==
  /\ pc = "stdio"
  /\ \E out \in ConnectOutcomes :
       LET n == connectCalls + 1
           t == Len(transports) + 1
       IN /\ transports' = Append(transports, NewTransport("stdio", 0, FALSE))
          /\ connectCalls' = n
          /\ IF out = "ok"
               THEN /\ result' = Returned(t, 0)
                    /\ pc' = "done"
                    /\ UNCHANGED primaryError
               ELSE /\ primaryError' = ConnectError(n, out)
                    /\ pc' = "stdio_catch"
                    /\ UNCHANGED result
  /\ UNCHANGED <<otherVars, entry, definition, options, timeoutSource, activeDefinition, iterations,
                 oauthSession, sessions, cwa, timer, elapsed, unauthorizedReconnects,
                 promotedCalls, timedOut>>

\* catch (error) { await closeTransportAndWait(logger, transport).catch(() => {}); throw error; }
StdioCatch ==
  /\ pc = "stdio_catch"
  /\ transports' = closeTransportAndWait(transports, Len(transports))
  /\ result' = Thrown(primaryError)
  /\ pc' = "done"
  /\ UNCHANGED <<otherVars, entry, definition, options, timeoutSource, activeDefinition, iterations,
                 oauthSession, sessions, cwa, timer, elapsed, primaryError, connectCalls,
                 unauthorizedReconnects, promotedCalls, timedOut>>

\* top of the while(true) body: let oauthSession; createOAuthSession when
\* shouldEstablishOAuth; the listener may fail to bind
LoopTop ==
  /\ pc = "loop"
  /\ iterations' = iterations + 1
  /\ IF shouldEstablishOAuth(activeDefinition, options)
       THEN \/ /\ sessions' = Append(sessions, NewSession)
               /\ oauthSession' = Len(sessions) + 1
               /\ pc' = "headers"
               /\ UNCHANGED result
            \/ /\ result' = Thrown(MkError("createOAuthSession-failed", 0, FALSE, FALSE, 0))
               /\ pc' = "done"
               /\ oauthSession' = 0
               /\ UNCHANGED sessions
       ELSE /\ oauthSession' = 0
            /\ pc' = "headers"
            /\ UNCHANGED <<sessions, result>>
  /\ UNCHANGED <<otherVars, entry, definition, options, timeoutSource, activeDefinition, transports,
                 cwa, timer, elapsed, primaryError, connectCalls, unauthorizedReconnects,
                 promotedCalls, timedOut>>

\* const resolvedHeaders = materializeHeaders(command.headers, activeDefinition.name)
MaterializeHeaders ==
  /\ pc = "headers"
  /\ \E out \in MaterializeOutcomes :
       IF out = "ok"
         THEN /\ pc' = "attempt"
              /\ UNCHANGED result
         ELSE /\ result' = Thrown(MkError("materializeHeaders-failed", 0, FALSE, FALSE, 0))
              /\ pc' = "done"
  /\ UNCHANGED <<otherVars, entry, definition, options, timeoutSource, activeDefinition, iterations,
                 oauthSession, sessions, transports, cwa, timer, elapsed, primaryError,
                 connectCalls, unauthorizedReconnects, promotedCalls, timedOut>>

\* attemptConnect(): new StreamableHTTPClientTransport(command.url, baseOptions),
\* then connectWithAuth(client, streamableTransport, oauthSession, ...)
AttemptConnect ==
  /\ pc = "attempt"
  /\ transports' = Append(transports, NewTransport("streamable-http", oauthSession, TRUE))
  /\ cwa' = EnterConnectWithAuth("streamable", Len(transports) + 1, oauthSession,
                                 iterations > 1)
  /\ pc' = "cwa_connect"
  /\ UNCHANGED <<otherVars, entry, definition, options, timeoutSource, activeDefinition, iterations,
                 oauthSession, sessions, timer, elapsed, primaryError, result, connectCalls,
                 unauthorizedReconnects, promotedCalls, timedOut>>

\* attemptConnect() resolves: return { client, transport, definition, oauthSession }
AttemptConnectReturn ==
  /\ pc = "cwa_return"
  /\ cwa.caller = "streamable"
  /\ cwa.outcome = "ok"
  /\ result' = Returned(cwa.transport, oauthSession)
  /\ pc' = "done"
  /\ UNCHANGED <<otherVars, entry, definition, options, timeoutSource, activeDefinition, iterations,
                 oauthSession, sessions, transports, cwa, timer, elapsed, primaryError,
                 connectCalls, unauthorizedReconnects, promotedCalls, timedOut>>

AttemptConnectCatch_NoClose ==
  /\ pc = "cwa_return"
  /\ cwa.caller = "streamable"
  /\ cwa.outcome = "throw"
  /\ primaryError' = cwa.thrown
  /\ pc' = "primary_catch"
  /\ UNCHANGED <<otherVars, entry, definition, options, timeoutSource, activeDefinition, iterations,
                 oauthSession, sessions, transports, cwa, timer, elapsed, result, connectCalls,
                 unauthorizedReconnects, promotedCalls, timedOut>>

\* catch inside attemptConnect: close the streamable transport, rethrow
AttemptConnectCatch ==
  /\ pc = "cwa_return"
  /\ cwa.caller = "streamable"
  /\ cwa.outcome = "throw"
  /\ transports' = closeTransportAndWait(transports, cwa.transport)
  /\ primaryError' = cwa.thrown
  /\ pc' = "primary_catch"
  /\ UNCHANGED <<otherVars, entry, definition, options, timeoutSource, activeDefinition, iterations,
                 oauthSession, sessions, cwa, timer, elapsed, result, connectCalls,
                 unauthorizedReconnects, promotedCalls, timedOut>>

PrimaryCatch_FreshSseSession ==
  /\ pc = "primary_catch"
  /\ LET unauthorized == isUnauthorizedError(primaryError)
         ss == IF unauthorized THEN CloseSession(sessions, oauthSession) ELSE sessions
         os == IF unauthorized THEN 0 ELSE oauthSession
         promotion == maybeEnableOAuth(activeDefinition)
         fresh == IF os = 0 THEN 0 ELSE Len(ss) + 1
     IN IF unauthorized /\ AttemptsAllowed(options) /\ promotion.promoted
          THEN /\ activeDefinition' = promotion.def
               /\ promotedCalls' = onDefinitionPromoted(promotedCalls, promotion.def)
               /\ sessions' = ss
               /\ oauthSession' = os
               /\ pc' = "loop"
               /\ UNCHANGED <<transports, cwa, result>>
        ELSE IF IsOAuthTimeoutError(primaryError)
          THEN /\ sessions' = CloseSession(ss, os)
               /\ oauthSession' = os
               /\ result' = Thrown(primaryError)
               /\ pc' = "done"
               /\ UNCHANGED <<activeDefinition, promotedCalls, transports, cwa>>
        ELSE /\ transports' = Append(transports, NewTransport("sse", fresh, TRUE))
             /\ cwa' = EnterConnectWithAuth("sse", Len(transports) + 1, fresh, unauthorized)
             /\ sessions' = IF os = 0 THEN ss ELSE Append(CloseSession(ss, os), NewSession)
             /\ oauthSession' = fresh
             /\ pc' = "cwa_connect"
             /\ UNCHANGED <<activeDefinition, promotedCalls, result>>
  /\ UNCHANGED <<otherVars, entry, definition, options, timeoutSource, iterations, timer, elapsed,
                 primaryError, connectCalls, unauthorizedReconnects, timedOut>>

\* catch (primaryError): lines 239-273, up to the connectWithAuth call of the
\* SSE fallback
PrimaryCatch ==
  /\ pc = "primary_catch"
  /\ LET unauthorized == isUnauthorizedError(primaryError)
         \* await oauthSession?.close().catch(() => {}); oauthSession = undefined
         ss == IF unauthorized THEN CloseSession(sessions, oauthSession) ELSE sessions
         os == IF unauthorized THEN 0 ELSE oauthSession
         promotion == maybeEnableOAuth(activeDefinition)
     IN IF unauthorized /\ AttemptsAllowed(options) /\ promotion.promoted
          THEN \* activeDefinition = promoted; onDefinitionPromoted?.(promoted); continue
               /\ activeDefinition' = promotion.def
               /\ promotedCalls' = onDefinitionPromoted(promotedCalls, promotion.def)
               /\ sessions' = ss
               /\ oauthSession' = os
               /\ pc' = "loop"
               /\ UNCHANGED <<transports, cwa, result>>
        ELSE IF IsOAuthTimeoutError(primaryError)
          THEN /\ sessions' = CloseSession(ss, os)
               /\ oauthSession' = os
               /\ result' = Thrown(primaryError)
               /\ pc' = "done"
               /\ UNCHANGED <<activeDefinition, promotedCalls, transports, cwa>>
        ELSE \* new SSEClientTransport(command.url, { ...baseOptions }): baseOptions
             \* still holds the authProvider the streamable transport was given
             /\ transports' = Append(transports,
                                NewTransport("sse", transports[cwa.transport].authProvider, TRUE))
             /\ cwa' = EnterConnectWithAuth("sse", Len(transports) + 1, os, unauthorized)
             /\ sessions' = ss
             /\ oauthSession' = os
             /\ pc' = "cwa_connect"
             /\ UNCHANGED <<activeDefinition, promotedCalls, result>>
  /\ UNCHANGED <<otherVars, entry, definition, options, timeoutSource, iterations, timer, elapsed,
                 primaryError, connectCalls, unauthorizedReconnects, timedOut>>

\* the SSE connectWithAuth resolves: return { client, transport: sseTransport, ... }
SseReturn ==
  /\ pc = "cwa_return"
  /\ cwa.caller = "sse"
  /\ cwa.outcome = "ok"
  /\ result' = Returned(cwa.transport, oauthSession)
  /\ pc' = "done"
  /\ UNCHANGED <<otherVars, entry, definition, options, timeoutSource, activeDefinition, iterations,
                 oauthSession, sessions, transports, cwa, timer, elapsed, primaryError,
                 connectCalls, unauthorizedReconnects, promotedCalls, timedOut>>

\* catch (sseError): lines 275-296
SseCatch ==
  /\ pc = "cwa_return"
  /\ cwa.caller = "sse"
  /\ cwa.outcome = "throw"
  /\ transports' = closeTransportAndWait(transports, cwa.transport)
  /\ sessions' = CloseSession(sessions, oauthSession)
  /\ LET sseError == cwa.thrown
         promotion == maybeEnableOAuth(activeDefinition)
     IN IF IsOAuthTimeoutError(sseError)
          THEN /\ result' = Thrown(sseError)
               /\ pc' = "done"
               /\ UNCHANGED <<activeDefinition, promotedCalls>>
        ELSE IF isUnauthorizedError(sseError) /\ AttemptsAllowed(options) /\ promotion.promoted
          THEN /\ activeDefinition' = promotion.def
               /\ promotedCalls' = onDefinitionPromoted(promotedCalls, promotion.def)
               /\ pc' = "loop"
               /\ UNCHANGED result
        ELSE /\ result' = Thrown(sseError)
             /\ pc' = "done"
             /\ UNCHANGED <<activeDefinition, promotedCalls>>
  /\ UNCHANGED <<otherVars, entry, definition, options, timeoutSource, iterations, oauthSession, cwa,
                 timer, elapsed, primaryError, connectCalls, unauthorizedReconnects, timedOut>>

(* ---------------------------- specification --------------------------- *)

Next ==
  \/ StdioConnect
  \/ StdioCatch
  \/ LoopTop
  \/ MaterializeHeaders
  \/ AttemptConnect
  \/ CwaConnect
  \/ WaitTick
  \/ WaitCode
  \/ WaitRejected
  \/ WaitTimeout
  \/ FinishAuth
  \/ DirectReturn
  \/ AttemptConnectReturn
  \/ AttemptConnectCatch
  \/ PrimaryCatch
  \/ SseReturn
  \/ SseCatch

Spec == Init /\ [][Next]_vars

TypeOK ==
  /\ pc \in {"stdio", "stdio_catch", "loop", "headers", "attempt", "cwa_connect", "cwa_wait",
             "cwa_finishAuth", "cwa_return", "primary_catch", "done"}
  /\ oauthSession \in 0..Len(sessions)
  /\ elapsed >= 0

(* ------------------------------- claims ------------------------------- *)

\* the build of an HTTP definition
HttpBuild == entry = "createClientContext" /\ definition.kind = "http"

BuildDone == entry = "createClientContext" /\ pc = "done"

\* the error classifier calls the error unauthorized
ClassifiedAuth(error) == error.msg401 \/ error.status401

\* the last step of the running connectWithAuth call was a connect that failed
LastConnectFailed ==
  cwa.lastStep = "connect" /\ cwa.outcome # "ok" /\ cwa.error.type = "connect"

\* C1: one connectWithAuth call with maxAttempts = N calls client.connect at
\* most N+1 times and transport.finishAuth at most N times; when the connect
\* after the N-th authorization is unauthorized again, the call throws exactly
\* that connect error.
C1_AttemptBudget ==
  LET N == EffectiveMaxAttempts(options)
  IN /\ cwa.connects <= N + 1
     /\ cwa.finishAuthCalls <= N
     /\ (LastConnectFailed /\ cwa.connects = N + 1)
          => /\ pc # "cwa_wait"
             /\ cwa.outcome = "throw"
             /\ cwa.thrown = cwa.error
             /\ cwa.error.id = connectCalls

C1_Witness ==
  /\ EffectiveMaxAttempts(options) >= 1
  /\ cwa.connects = EffectiveMaxAttempts(options) + 1
  /\ cwa.finishAuthOk = EffectiveMaxAttempts(options)
  /\ LastConnectFailed
  /\ ClassifiedAuth(cwa.error)
  /\ cwa.outcome = "throw"

\* C2 as stated: in an HTTP build with maxOAuthAttempts = N >= 1 the connects
\* made in response to an unauthorized failure, summed over the streamable
\* attempt, the SSE fallback and the restart after a promotion, number at most N.
C2_Original ==
  (HttpBuild /\ options.maxOAuthAttempts.tag = "number" /\ options.maxOAuthAttempts.val >= 1)
    => unauthorizedReconnects <= options.maxOAuthAttempts.val

\* C2 amended: in an HTTP build with maxOAuthAttempts = N >= 1 each single
\* connectWithAuth call re-connects at most N times after an unauthorized
\* failure; the streamable attempt, the SSE fallback and the restart after a
\* promotion each start a call with a fresh budget, and over the whole build
\* these connects number at most 2N + 1.
C2_PerCallBudget ==
  (HttpBuild /\ options.maxOAuthAttempts.tag = "number" /\ options.maxOAuthAttempts.val >= 1)
    => /\ cwa.reconnects <= options.maxOAuthAttempts.val
       /\ unauthorizedReconnects <= 2 * options.maxOAuthAttempts.val + 1

C2_Witness ==
  /\ HttpBuild
  /\ options.maxOAuthAttempts.tag = "number"
  /\ options.maxOAuthAttempts.val >= 1
  /\ cwa.reconnects = options.maxOAuthAttempts.val
  /\ unauthorizedReconnects = 2 * options.maxOAuthAttempts.val + 1

\* C3: with maxOAuthAttempts = 0 a build never creates an OAuth session and
\* never promotes the definition, whatever the definition's auth and whatever
\* the connects answer; a build whose connects fail throws the error of its
\* last connect.
C3_ZeroAttemptsNoOAuth ==
  (entry = "createClientContext" /\ options.maxOAuthAttempts = Num(0))
    => /\ sessions = <<>>
       /\ oauthSession = 0
       /\ promotedCalls = <<>>
       /\ activeDefinition = definition
       /\ (pc = "done" /\ connectCalls > 0 /\ result.status = "error")
            => result.error.type = "connect" /\ result.error.id = connectCalls

C3_Witness ==
  /\ HttpBuild
  /\ options.maxOAuthAttempts = Num(0)
  /\ definition.auth = "oauth"
  /\ pc = "done"
  /\ connectCalls = 2
  /\ ClassifiedAuth(primaryError)
  /\ ClassifiedAuth(result.error)

OpenSessions == {i \in 1..Len(sessions) : ~sessions[i].closed}

OpenTransports == {i \in 1..Len(transports) : ~transports[i].closed}

\* C4: when a build completes, every OAuth session it created is closed or is
\* the open session carried by the returned context; after a build that threw,
\* every session it opened has been closed.
C4_SessionsClosedOnCompletion ==
  BuildDone =>
    \A i \in OpenSessions : result.status = "ok" /\ result.oauthSession = i

\* C5: a build never holds two un-closed transports, a transport whose connect
\* failed is closed before the failure propagates, and after a failed build no
\* transport is left open; the transport of a returned context is the open one.
C5_TransportsClosedOnFailure ==
  entry = "createClientContext"
    => /\ Cardinality(OpenTransports) <= 1
       /\ pc \in {"loop", "headers", "attempt"} => OpenTransports = {}
       /\ (pc = "done" /\ result.status = "error") => OpenTransports = {}
       /\ (pc = "done" /\ result.status = "ok") => OpenTransports = {result.transport}

C5_Witness ==
  /\ BuildDone
  /\ result.status = "error"
  /\ Len(transports) = 4
  /\ \A i \in 1..4 : transports[i].closed /\ transports[i].closeCalls = 1

FinitePositive(t) == t.tag = "number" /\ t.val >= 1

C6_UnboundedWitness ==
  /\ pc = "cwa_wait"
  /\ ~timer.armed
  /\ options.oauthTimeoutMs = Num(0)
  /\ elapsed = MaxElapsed

\* C7: when the authorization wait times out during a build, nothing more is
\* connected, constructed or promoted after the timeout, and the build ends
\* throwing the OAuthTimeoutError that carries the server name and the
\* configured timeout, with every OAuth session of the build closed.
C7_TimeoutAbortsBuild ==
  (entry = "createClientContext" /\ timedOut.fired)
    => /\ connectCalls = timedOut.connectCalls
       /\ Len(transports) = timedOut.transports
       /\ Len(promotedCalls) = timedOut.promotions
       /\ pc \in {"cwa_return", "primary_catch", "done"}
       /\ pc = "done"
            => /\ result.status = "error"
               /\ result.error.type = "OAuthTimeoutError"
               /\ result.error.serverName = definition.name
               /\ result.error.timeoutMs = EffectiveTimeout(options).val
               /\ OpenSessions = {}
               /\ OpenTransports = {}

C7_Witness ==
  /\ BuildDone
  /\ timedOut.fired
  /\ definition.name = "HTTP 401"
  /\ cwa.caller = "streamable"
  /\ result.error.type = "OAuthTimeoutError"
  /\ result.error.timeoutMs = 60000
  /\ Len(sessions) = 1
  /\ sessions[1].closed

C7_SseWitness ==
  /\ BuildDone
  /\ timedOut.fired
  /\ cwa.caller = "sse"
  /\ result.error.type = "OAuthTimeoutError"

\* C8: in connectWithAuth a connect that fails with an error that is not
\* unauthorized, or that fails when no OAuth session was supplied, ends the call
\* at once by rethrowing that same error: no wait, finishAuth or connect follows
\* it, and when it is the first connect of the call the call made exactly one
\* connect, no wait and no finishAuth.
C8_NonAuthShortCircuits ==
  (LastConnectFailed /\ (~ClassifiedAuth(cwa.error) \/ cwa.session = 0))
    => /\ pc \notin {"cwa_connect", "cwa_wait", "cwa_finishAuth"}
       /\ cwa.outcome = "throw"
       /\ cwa.thrown = cwa.error
       /\ cwa.error.id = connectCalls
       /\ cwa.waits = cwa.connects - 1
       /\ cwa.finishAuthCalls = cwa.connects - 1
       /\ cwa.session = 0 => cwa.connects = 1

C8_Witness ==
  /\ LastConnectFailed
  /\ cwa.session = 0
  /\ ClassifiedAuth(cwa.error)
  /\ cwa.outcome = "throw"
  /\ cwa.connects = 1
  /\ cwa.waits = 0

C8_NonAuthWitness ==
  /\ LastConnectFailed
  /\ cwa.session # 0
  /\ ~ClassifiedAuth(cwa.error)
  /\ cwa.outcome = "throw"
  /\ cwa.connects = 1

\* C9: connectWithAuth calls client.connect again only right after
\* transport.finishAuth has succeeded with the code the wait yielded; a failed
\* wait, a failed finishAuth or a transport without finishAuth ends the call in
\* failure with no further connect.
C9_ReconnectOnlyAfterFinishAuth ==
  /\ cwa.connects <= cwa.finishAuthOk + 1
  /\ (pc = "cwa_connect" /\ cwa.connects > 0)
       => /\ cwa.lastStep = "finishAuth"
          /\ cwa.finishAuthOk = cwa.connects
          /\ cwa.finishAuthArg = cwa.code
          /\ cwa.code \in Codes
  /\ (cwa.transport # 0 /\ ~transports[cwa.transport].hasFinishAuth)
       => cwa.connects <= 1 /\ cwa.finishAuthCalls = 0
  /\ (cwa.lastStep = "wait" /\ pc # "cwa_finishAuth")
       => cwa.outcome = "throw" /\ pc \in {"cwa_return", "primary_catch", "loop", "done"}
  /\ (cwa.lastStep = "finishAuth" /\ cwa.finishAuthOk < cwa.finishAuthCalls)
       => cwa.outcome = "throw" /\ cwa.thrown.type = "finishAuth-failed"

C9_Witness ==
  /\ pc = "cwa_connect"
  /\ cwa.connects = 2
  /\ cwa.finishAuthOk = 2
  /\ cwa.finishAuthArg = "code-b"

C9_NoFinishAuthWitness ==
  /\ cwa.transport # 0
  /\ ~transports[cwa.transport].hasFinishAuth
  /\ cwa.lastStep = "wait"
  /\ cwa.outcome = "throw"
  /\ cwa.thrown = cwa.error
  /\ cwa.code \in Codes

\* C10: in connectWithAuth, when a connect fails unauthorized within the attempt
\* budget and session.didStartAuthorization() is false, the call fails at once
\* with the 'OAuth flow failed before a browser authorization could begin'
\* error wrapping that connect error; it has not waited for a code and has not
\* called finishAuth.
C10_FlowNotStartedFailsFast ==
  /\ (/\ LastConnectFailed
      /\ cwa.session # 0
      /\ ClassifiedAuth(cwa.error)
      /\ cwa.attempt <= EffectiveMaxAttempts(options)
      /\ ~sessions[cwa.session].authorizationStarted)
       => /\ pc # "cwa_wait"
          /\ cwa.outcome = "throw"
          /\ cwa.thrown = FlowNotStartedError(cwa.error)
          /\ cwa.thrown.id = cwa.error.id
          /\ cwa.waits = 0
          /\ cwa.finishAuthCalls = 0
          /\ cwa.connects = 1
  /\ cwa.thrown.type = "flow-not-started"
       => cwa.session # 0 /\ ~sessions[cwa.session].authorizationStarted

C10_Witness ==
  /\ cwa.thrown.type = "flow-not-started"
  /\ cwa.session # 0
  /\ ~sessions[cwa.session].authorizationStarted
  /\ cwa.error.status401
  /\ ~ClassifiedAuth(cwa.thrown)
  /\ cwa.connects = 1

\* the streamable attempt of the current iteration failed with an error that is
\* neither unauthorized nor an OAuth timeout
PrimaryFailedPlain ==
  /\ primaryError.type # "none"
  /\ ~ClassifiedAuth(primaryError)
  /\ primaryError.type # "OAuthTimeoutError"

\* C11: when the streamable-HTTP attempt of a build fails with an error that is
\* neither unauthorized nor an OAuth timeout, the build makes one SSE attempt
\* right after it, with the OAuth session (and auth provider) the streamable
\* attempt had; the iteration created one session when OAuth is established and
\* none otherwise, and when the SSE attempt succeeds the returned context
\* carries the SSE transport and that session, still open.
C11_SseSharesSession ==
  /\ (HttpBuild /\ cwa.caller = "sse" /\ PrimaryFailedPlain)
       => LET t == cwa.transport
          IN /\ t = Len(transports)
             /\ t > 1
             /\ transports[t].kind = "sse"
             /\ transports[t - 1].kind = "streamable-http"
             /\ transports[t - 1].closed
             /\ transports[t].authProvider = transports[t - 1].authProvider
             /\ cwa.session = transports[t - 1].authProvider
             /\ Len(sessions) <= iterations
             /\ (pc \in {"cwa_connect", "cwa_wait", "cwa_finishAuth", "cwa_return"})
                  => /\ oauthSession = cwa.session
                     /\ (cwa.session # 0) = (activeDefinition.auth = "oauth"
                                               /\ options.maxOAuthAttempts # Num(0))
                     /\ cwa.session # 0
                          => cwa.session = Len(sessions) /\ ~sessions[cwa.session].closed
             /\ (pc = "done" /\ result.status = "ok")
                  => /\ result.transport = t
                     /\ result.oauthSession = cwa.session
                     /\ result.oauthSession # 0 => ~sessions[result.oauthSession].closed
  \* a streamable failure ends the iteration without an SSE attempt only when
  \* it is unauthorized or an OAuth timeout
  /\ (HttpBuild /\ cwa.caller = "streamable" /\ cwa.outcome = "throw"
        /\ pc \notin {"cwa_return", "primary_catch"})
       => ClassifiedAuth(primaryError) \/ primaryError.type = "OAuthTimeoutError"
  \* no two SSE transports follow one streamable transport
  /\ HttpBuild
       => \A i \in 2..Len(transports) :
            transports[i].kind = "sse" => transports[i - 1].kind = "streamable-http"

C11_Witness ==
  /\ BuildDone
  /\ result.status = "ok"
  /\ cwa.caller = "sse"
  /\ PrimaryFailedPlain
  /\ Len(sessions) = 1
  /\ Len(transports) = 2
  /\ transports[result.transport].kind = "sse"
  /\ result.oauthSession = 1
  /\ transports[1].authProvider = 1

\* C13: in a build onDefinitionPromoted has been called once for each promotion
\* made so far and never without one; the argument is the promoted definition,
\* which is the definition of the build with auth = oauth and is the active
\* definition from then on; the call precedes every step of the iteration that
\* the promotion starts, so that iteration k connects after k - 1 calls.
C13_PromotionNotifiedOnce ==
  entry = "createClientContext"
    => /\ Len(promotedCalls) = (IF activeDefinition # definition THEN 1 ELSE 0)
       /\ \A i \in 1..Len(promotedCalls) :
            /\ promotedCalls[i] = [definition EXCEPT !.auth = "oauth"]
            /\ promotedCalls[i] = activeDefinition
            /\ definition.auth # "oauth"
            /\ definition.kind = "http"
       /\ HttpBuild
            => Len(promotedCalls) = iterations - (IF pc = "loop" THEN 0 ELSE 1)
       /\ (promotedCalls = <<>>) => (activeDefinition = definition /\ iterations <= 1)

C13_Witness ==
  /\ HttpBuild
  /\ pc = "cwa_connect"
  /\ cwa.caller = "streamable"
  /\ cwa.connects = 0
  /\ iterations = 2
  /\ connectCalls = 2
  /\ definition.auth = "none"
  /\ promotedCalls = <<[definition EXCEPT !.auth = "oauth"]>>
  /\ Len(sessions) = 1

(* ---------------------- maybeEnableOAuth on its own ------------------- *)

\* AbortSignal.timeout(5000) of the probe
PROBE_TIMEOUT_MS == 5000

\* definition.source: the ad-hoc sentinel, a configuration file, or absent
Sources == {"adhoc", "config", "none"}

\* what the server answers to GET /.well-known/oauth-protected-resource:
\* ok = response.ok; body = what response.json() yields, servers = the
\* length of authorization_servers when it is an array
ProbeResponses ==
  {[net |-> "error", ok |-> FALSE, body |-> "none", servers |-> 0],
   [net |-> "response", ok |-> FALSE, body |-> "json", servers |-> 1],
   [net |-> "response", ok |-> TRUE, body |-> "not-json", servers |-> 0],
   [net |-> "response", ok |-> TRUE, body |-> "no-array", servers |-> 0],
   [net |-> "response", ok |-> TRUE, body |-> "json", servers |-> 0],
   [net |-> "response", ok |-> TRUE, body |-> "json", servers |-> 1],
   [net |-> "response", ok |-> TRUE, body |-> "json", servers |-> 2]}

\* milliseconds the server takes to answer
ProbeLatencies == {1, PROBE_TIMEOUT_MS - 1, PROBE_TIMEOUT_MS, PROBE_TIMEOUT_MS + 1}

\* the two implementations of maybeEnableOAuth in the repository
PromoteVariants == {"runtime-oauth-support.ts", "part_001"}

\* definition.source && source.kind === 'local' && source.path === '<adhoc>'
isAdHocSource(def) == def.source = "adhoc"

\* probeOAuthSupport once the fetch has settled; aborted: the 5000 ms signal
\* fired first. Every failure is caught and yields false.
probeOAuthSupport(response, aborted) ==
  IF aborted \/ response.net = "error" THEN FALSE
  ELSE IF ~response.ok THEN FALSE
  ELSE IF response.body = "not-json" THEN FALSE
  ELSE response.body = "json" /\ response.servers > 0

\* the signal fires at 5000 ms; a response that arrives in that very
\* millisecond may win or lose the race
AbortedChoices(latency) ==
  IF latency < PROBE_TIMEOUT_MS THEN {FALSE}
  ELSE IF latency = PROBE_TIMEOUT_MS THEN {FALSE, TRUE}
  ELSE {TRUE}

InitPromote ==
  /\ \E name \in ServerNames, kind \in {"stdio", "http"}, auth \in {"none", "oauth"},
        source \in Sources, variant \in PromoteVariants,
        response \in ProbeResponses, latency \in ProbeLatencies :
       promote = [phase |-> "called", variant |-> variant,
                  definition |-> [name |-> name, kind |-> kind, auth |-> auth,
                                  source |-> source],
                  response |-> response, latency |-> latency,
                  probed |-> FALSE, aborted |-> FALSE, supportsOAuth |-> FALSE,
                  promoted |-> FALSE,
                  returned |-> [name |-> name, kind |-> kind, auth |-> auth,
                                source |-> source]]
  /\ BuilderIdle
  /\ SessionIdle
  /\ runtime = RuntimeIdle
  /\ build = BuildIdle
  /\ UtilitiesIdle

\* runtime-oauth-support.ts: the synchronous maybeEnableOAuth
MaybeEnableOAuthCall ==
  /\ promote.phase = "called"
  /\ promote.variant = "runtime-oauth-support.ts"
  /\ LET r == maybeEnableOAuth(promote.definition)
     IN promote' = [promote EXCEPT !.phase = "returned", !.promoted = r.promoted,
                                    !.returned = r.def]
  /\ UNCHANGED notPromote

\* part_001 lines 5-16: the checks before the probe; a definition that is not
\* ad-hoc starts the fetch
MaybeEnableOAuthProbeCall ==
  /\ promote.phase = "called"
  /\ promote.variant = "part_001"
  /\ LET def == promote.definition
     IN IF def.auth = "oauth" \/ def.kind # "http"
          THEN promote' = [promote EXCEPT !.phase = "returned"]
        ELSE IF isAdHocSource(def)
          THEN promote' = [promote EXCEPT !.phase = "returned", !.promoted = TRUE,
                                           !.returned = [def EXCEPT !.auth = "oauth"]]
        ELSE promote' = [promote EXCEPT !.phase = "probing", !.probed = TRUE]
  /\ UNCHANGED notPromote

\* part_001 lines 16-25: the probe settles and maybeEnableOAuth returns
ProbeSettles ==
  /\ promote.phase = "probing"
  /\ \E aborted \in AbortedChoices(promote.latency) :
       LET supportsOAuth == probeOAuthSupport(promote.response, aborted)
           p == [promote EXCEPT !.phase = "returned", !.aborted = aborted,
                                !.supportsOAuth = supportsOAuth]
       IN promote' = IF supportsOAuth
                       THEN [p EXCEPT !.promoted = TRUE,
                                      !.returned = [promote.definition EXCEPT !.auth = "oauth"]]
                       ELSE p
  /\ UNCHANGED notPromote

NextPromote ==
  \/ MaybeEnableOAuthCall
  \/ MaybeEnableOAuthProbeCall
  \/ ProbeSettles

SpecPromote == InitPromote /\ [][NextPromote]_vars

\* the probe advertised at least one authorization server within the deadline
ProbeAdvertised ==
  /\ promote.probed
  /\ ~promote.aborted
  /\ promote.response.net = "response"
  /\ promote.response.ok
  /\ promote.response.body = "json"
  /\ promote.response.servers >= 1

\* C12: maybeEnableOAuth promotes an HTTP definition whose auth is not oauth
\* only when the definition is ad-hoc or the probe of
\* /.well-known/oauth-protected-resource advertised at least one authorization
\* server within 5 seconds; a definition that is already oauth or is not HTTP
\* is returned unchanged.
C12_PromotionNeedsProbeOrAdHoc ==
  promote.phase = "returned"
    => /\ promote.promoted
            => /\ promote.definition.kind = "http"
               /\ promote.definition.auth # "oauth"
               /\ promote.returned = [promote.definition EXCEPT !.auth = "oauth"]
               /\ \/ promote.definition.source = "adhoc" /\ ~promote.probed
                  \/ ProbeAdvertised
       /\ (promote.definition.auth = "oauth" \/ promote.definition.kind # "http")
            => ~promote.promoted /\ promote.returned = promote.definition
       /\ ~promote.promoted => promote.returned = promote.definition

\* the probing implementation (part_001) on its own
C12_ProbeVariantHolds ==
  promote.phase # "idle" /\ promote.variant = "part_001" => C12_PromotionNeedsProbeOrAdHoc

(* --------------------------- the OAuth session ------------------------ *)

\* largest number of calls of one operation of the provider, and of requests
MaxCalls == 2

\* largest number of calls and requests one session is followed through
MaxOps == 4

CALLBACK_HOST == "127.0.0.1"

CALLBACK_PATH == "/"

DEFAULT_CALLBACK_PORT == 33418

\* a port the operating system assigns to listen(0)
OS_ASSIGNED_PORT == 49152

\* URL.toString(): the default port of the scheme is not written
UrlToString(u) == <<u.host, IF u.port = 80 THEN 0 ELSE u.port, u.path>>

\* definition.oauthRedirectUrl as new URL(...) parses it; NoUrl: not set
OverrideRedirects ==
  {NoUrl, Url("localhost", 8080, "/cb"), Url("localhost", 0, "/"), Url("127.0.0.1", 9000, "/")}

\* how server.listen(port, host) ends
ListenOutcomes(port) ==
  IF port = 0 THEN {"ok", "EACCES"} ELSE {"ok", "EADDRINUSE", "EACCES"}

\* address.port after a successful listen
BoundPort(port) == IF port = 0 THEN OS_ASSIGNED_PORT ELSE port

\* redirectUris of create, lines 215-221
RedirectUris(override, listenHost, redirectUrl) ==
  IF override = NoUrl /\ listenHost = CALLBACK_HOST
    THEN {UrlToString(Url(CALLBACK_HOST, 0, "/")),
          UrlToString(Url(CALLBACK_HOST, DEFAULT_CALLBACK_PORT, "/"))}
    ELSE {UrlToString(redirectUrl)}

\* createOAuthSession has not been called yet
InitSession ==
  /\ BuilderIdle
  /\ promote = PromoteIdle
  /\ SessionIdle
  /\ runtime = RuntimeIdle
  /\ build = BuildIdle
  /\ UtilitiesIdle

\* the error of the first listen has the code EADDRINUSE
isAddressInUse_AnyError(error) == TRUE

isAddressInUse(error) == error = "EADDRINUSE"

\* PersistentOAuthClientProvider.create(definition, logger), lines 134-250, for
\* definition.oauthRedirectUrl = override; first, second: how the first and the
\* second server.listen end. Yields the fields of the provider and the server.
create(override, first, second) ==
  LET hasOverride == override # NoUrl
      listenHost == IF hasOverride THEN override.host ELSE CALLBACK_HOST
      usesDynamicPort == ~hasOverride \/ override.port = 0
      shouldPreferStablePort == ~hasOverride
      \* desiredPort ?? 0
      desiredPort == IF usesDynamicPort THEN 0 ELSE override.port
      callbackPath == IF hasOverride /\ override.path # "/"
                        THEN override.path ELSE CALLBACK_PATH
      firstPort == IF shouldPreferStablePort THEN DEFAULT_CALLBACK_PORT ELSE desiredPort
      retried == first # "ok" /\ shouldPreferStablePort /\ isAddressInUse(first)
      bound == first = "ok" \/ (retried /\ second = "ok")
      port == IF first = "ok" THEN BoundPort(firstPort) ELSE BoundPort(desiredPort)
      attempts == IF retried THEN <<firstPort, desiredPort>> ELSE <<firstPort>>
      results == IF retried THEN <<first, second>> ELSE <<first>>
      base == IF hasOverride THEN override ELSE Url(listenHost, port, callbackPath)
      withPort == IF usesDynamicPort THEN [base EXCEPT !.port = port] ELSE base
      redirectUrl == IF ~hasOverride \/ override.path = "/"
                       THEN [withPort EXCEPT !.path = callbackPath] ELSE withPort
  IN IF bound
       THEN [provider |-> [phase |-> "created", override |-> override,
                           redirectUrl |-> redirectUrl,
                           redirect_uris |-> RedirectUris(override, listenHost, redirectUrl),
                           authorizationStarted |-> FALSE, authorizationDeferred |-> 0,
                           server |-> TRUE],
             listener |-> [state |-> "listening", host |-> listenHost, port |-> port,
                           listenCalls |-> attempts, listenResults |-> results,
                           closeCalls |-> 0]]
       ELSE [provider |-> [phase |-> "failed", override |-> override, redirectUrl |-> NoUrl,
                           redirect_uris |-> {}, authorizationStarted |-> FALSE,
                           authorizationDeferred |-> 0, server |-> FALSE],
             listener |-> [state |-> "unbound", host |-> "", port |-> 0,
                           listenCalls |-> attempts, listenResults |-> results,
                           closeCalls |-> 0]]

\* createOAuthSession(definition, logger)
Create ==
  /\ provider.phase = "none"
  /\ \E override \in OverrideRedirects :
       \E first \in ListenOutcomes(IF override = NoUrl THEN DEFAULT_CALLBACK_PORT
                                   ELSE override.port),
          second \in ListenOutcomes(0) :
         /\ (first = "ok" \/ override # NoUrl) => second = "ok"
         /\ provider' = create(override, first, second).provider
         /\ listener' = create(override, first, second).listener
  /\ UNCHANGED <<deferreds, handlers, lastResponse, closing, vault, callCount>>
  /\ UNCHANGED notSession

\* calls and requests made so far
Ops == callCount.redirects + callCount.waits + callCount.requests + callCount.closes

\* createDeferred(); born: number of close() calls begun before it was made
NewDeferred ==
  [status |-> "pending", value |-> "", settleCalls |-> 0, handedOut |-> FALSE,
   born |-> closing.started]

\* deferred?.resolve(value) / deferred?.reject(value): a promise keeps its
\* first settlement; d = 0 is the null deferred
Settle(ds, d, how, value) ==
  IF d = 0 THEN ds
  ELSE [ds EXCEPT ![d].settleCalls = @ + 1,
                  ![d].status = IF @ = "pending" THEN how ELSE @,
                  ![d].value = IF ds[d].status = "pending" THEN value ELSE @]

\* a query parameter as searchParams.get returns it: null or a string
NullParam == [present |-> FALSE, text |-> ""]

Param(text) == [present |-> TRUE, text |-> text]

\* JavaScript truthiness of string | null
Truthy(p) == p.present /\ p.text # ""

\* request targets that are explored; "//" is one that new URL(url, base) rejects
RequestPaths == {"/", "/callback", "/cb", "/other", "//"}

RequestCodes == {NullParam, Param(""), Param("code-a")}

RequestErrors == {NullParam, Param("access_denied")}

RequestStates == {NullParam, Param(""), Param("s1"), Param("s2")}

UrlParses(path) == path # "//"

PathAccepted_NoFallback(expectedPath, path) == path = expectedPath

\* lines 267-269: the expected path, or /callback when the expected path is /
PathAccepted(expectedPath, path) ==
  LET fallbackPath == IF expectedPath = "/" THEN "/callback" ELSE "<null>"
  IN ~(path # expectedPath /\ path # fallbackPath)

callbackRule_NoStateCheck(expectedState, code, error, receivedState) ==
  IF Truthy(code)
    THEN [status |-> 200, body |-> "Authorization successful", settle |-> "resolved",
          value |-> code.text]
  ELSE IF Truthy(error)
    THEN [status |-> 400, body |-> "Authorization failed", settle |-> "rejected",
          value |-> "OAuth error"]
  ELSE [status |-> 400, body |-> "Missing authorization code", settle |-> "rejected",
        value |-> "Missing authorization code"]

\* lines 283-312: the answer to a request on an accepted path and what is
\* done to the pending deferred; expectedState "" is the undefined of readState
callbackRule(expectedState, code, error, receivedState) ==
  IF expectedState # "" /\ Truthy(receivedState) /\ receivedState.text # expectedState
    THEN [status |-> 400, body |-> "Invalid OAuth state", settle |-> "rejected",
          value |-> "Invalid OAuth state"]
  ELSE IF Truthy(code)
    THEN [status |-> 200, body |-> "Authorization successful", settle |-> "resolved",
          value |-> code.text]
  ELSE IF Truthy(error)
    THEN [status |-> 400, body |-> "Authorization failed", settle |-> "rejected",
          value |-> "OAuth error"]
  ELSE [status |-> 400, body |-> "Missing authorization code", settle |-> "rejected",
        value |-> "Missing authorization code"]

\* catch (error) of the handler: nothing is written to the response
HandlerThrew ==
  [status |-> 0, body |-> "", settle |-> "rejected", value |-> "handler error"]

\* the record of an answered request; deferred: the deferred it settled, 0 for none
Response(path, code, error, receivedState, expectedState, rule, deferred) ==
  [seq |-> lastResponse.seq + 1, path |-> path, code |-> code, error |-> error,
   state |-> receivedState, expectedState |-> expectedState,
   expectedPath |-> provider.redirectUrl.path,
   status |-> rule.status, body |-> rule.body, settle |-> rule.settle,
   value |-> rule.value, deferred |-> deferred]

\* redirectToAuthorization(authorizationUrl), lines 364-371
RedirectToAuthorization ==
  /\ provider.phase = "created"
  /\ callCount.redirects < MaxCalls
  /\ Ops < MaxOps
  /\ deferreds' = Append(deferreds, NewDeferred)
  /\ provider' = [provider EXCEPT !.authorizationStarted = TRUE,
                                  !.authorizationDeferred = Len(deferreds) + 1]
  /\ callCount' = [callCount EXCEPT !.redirects = @ + 1]
  /\ UNCHANGED <<listener, handlers, lastResponse, closing, vault>>
  /\ UNCHANGED notSession

\* waitForAuthorizationCode(), lines 391-396: the promise it returns is handed out
WaitForAuthorizationCode ==
  /\ provider.phase = "created"
  /\ callCount.waits < MaxCalls
  /\ Ops < MaxOps
  /\ LET made == provider.authorizationDeferred = 0
         ds == IF made THEN Append(deferreds, NewDeferred) ELSE deferreds
         d == IF made THEN Len(deferreds) + 1 ELSE provider.authorizationDeferred
     IN /\ deferreds' = [ds EXCEPT ![d].handedOut = TRUE]
        /\ provider' = [provider EXCEPT !.authorizationDeferred = d]
  /\ callCount' = [callCount EXCEPT !.waits = @ + 1]
  /\ UNCHANGED <<listener, handlers, lastResponse, closing, vault>>
  /\ UNCHANGED notSession

\* state(), lines 328-336: a state that is persisted is returned, else one is
\* generated and persisted
ProviderState ==
  /\ provider.phase = "created"
  /\ vault.state = ""
  /\ vault' = [vault EXCEPT !.state = "s1"]
  /\ UNCHANGED <<provider, listener, deferreds, handlers, lastResponse, closing, callCount>>
  /\ UNCHANGED notSession

\* the 'request' listener up to its first await (lines 263-282)
HandlerReceive ==
  /\ provider.phase = "created"
  /\ listener.state = "listening"
  /\ callCount.requests < MaxCalls
  /\ Ops < MaxOps
  /\ callCount' = [callCount EXCEPT !.requests = @ + 1]
  /\ \E path \in RequestPaths :
       IF ~UrlParses(path)
         THEN \* new URL throws: catch (error), lines 313-316
              /\ deferreds' = Settle(deferreds, provider.authorizationDeferred,
                                     HandlerThrew.settle, HandlerThrew.value)
              /\ provider' = [provider EXCEPT !.authorizationDeferred = 0]
              /\ lastResponse' = Response(path, NullParam, NullParam, NullParam, "",
                                          HandlerThrew, provider.authorizationDeferred)
              /\ UNCHANGED handlers
       ELSE IF ~PathAccepted(provider.redirectUrl.path, path)
         THEN /\ lastResponse' = Response(path, NullParam, NullParam, NullParam, "",
                                          [status |-> 404, body |-> "Not found",
                                           settle |-> "none", value |-> ""], 0)
              /\ UNCHANGED <<deferreds, provider, handlers>>
       ELSE /\ handlers' = Append(handlers, path)
            /\ UNCHANGED <<deferreds, provider, lastResponse>>
  /\ UNCHANGED <<listener, closing, vault>>
  /\ UNCHANGED notSession

\* the handler resumes after await this.persistence.readState() (lines
\* 282-316); the query of the request is drawn here, where the code uses it;
\* a failing readState is followed for a request without query
HandlerRespond ==
  /\ \E i \in 1..Len(handlers), code \in RequestCodes, error \in RequestErrors,
        receivedState \in RequestStates, readFails \in BOOLEAN :
       LET expectedState == vault.state
           rule == IF readFails THEN HandlerThrew
                   ELSE callbackRule(expectedState, code, error, receivedState)
           d == provider.authorizationDeferred
       IN /\ readFails => (code = NullParam /\ error = NullParam /\ receivedState = NullParam)
          /\ deferreds' = Settle(deferreds, d, rule.settle, rule.value)
          /\ provider' = [provider EXCEPT !.authorizationDeferred = 0]
          /\ lastResponse' = Response(handlers[i], code, error, receivedState,
                                      IF readFails THEN "<unread>" ELSE expectedState,
                                      rule, d)
          /\ handlers' = SubSeq(handlers, 1, i - 1) \o SubSeq(handlers, i + 1, Len(handlers))
  /\ UNCHANGED <<listener, closing, vault, callCount>>
  /\ UNCHANGED notSession

CloseStart_KeepDeferred ==
  /\ provider.phase = "created"
  /\ callCount.closes < MaxCalls
  /\ Ops < MaxOps
  /\ callCount' = [callCount EXCEPT !.closes = @ + 1]
  /\ LET d == provider.authorizationDeferred
     IN /\ closing' = [closing EXCEPT
                         !.started = @ + 1,
                         !.inFlight = IF provider.server THEN @ + 1 ELSE @,
                         !.completed = IF provider.server THEN @ ELSE @ + 1,
                         !.last = [seq |-> closing.started + 1,
                                   priorCompleted |-> closing.completed,
                                   rejected |-> 0,
                                   calledServerClose |-> provider.server]]
        /\ listener' = IF provider.server
                         THEN [listener EXCEPT !.state = "closed", !.closeCalls = @ + 1]
                         ELSE listener
  /\ UNCHANGED <<provider, deferreds, handlers, lastResponse, vault>>
  /\ UNCHANGED notSession

\* close() up to its await (lines 403-414): the pending deferred is rejected
\* and forgotten; with a server, server.close is called
CloseStart ==
  /\ provider.phase = "created"
  /\ callCount.closes < MaxCalls
  /\ Ops < MaxOps
  /\ callCount' = [callCount EXCEPT !.closes = @ + 1]
  /\ LET d == provider.authorizationDeferred
     IN /\ deferreds' = Settle(deferreds, d, "rejected",
                               "OAuth session closed before receiving authorization code.")
        /\ provider' = [provider EXCEPT !.authorizationDeferred = 0]
        /\ closing' = [closing EXCEPT
                         !.started = @ + 1,
                         !.inFlight = IF provider.server THEN @ + 1 ELSE @,
                         !.completed = IF provider.server THEN @ ELSE @ + 1,
                         !.last = [seq |-> closing.started + 1,
                                   priorCompleted |-> closing.completed,
                                   rejected |-> d,
                                   calledServerClose |-> provider.server]]
        /\ listener' = IF provider.server
                         THEN [listener EXCEPT !.state = "closed", !.closeCalls = @ + 1]
                         ELSE listener
  /\ UNCHANGED <<handlers, lastResponse, vault>>
  /\ UNCHANGED notSession

\* the callback of server.close runs once the connections have ended:
\* this.server = undefined and close() returns (lines 413-415)
CloseFinish ==
  /\ closing.inFlight > 0
  /\ handlers = <<>>
  /\ provider' = [provider EXCEPT !.server = FALSE]
  /\ closing' = [closing EXCEPT !.inFlight = @ - 1, !.completed = @ + 1]
  /\ UNCHANGED <<listener, deferreds, handlers, lastResponse, vault, callCount>>
  /\ UNCHANGED notSession

\* persistence.saveTokens(tokens): writes the tokens artifact; each artifact
\* of the vault is a file of its own
persistence_saveTokens(v, tokens) == [v EXCEPT !.tokens = tokens]

\* saveTokens(tokens), lines 359-362; verifierAfterSave: the code verifier
\* that is persisted at the moment saveTokens returns
saveTokens(v, tokens) ==
  [persistence_saveTokens(v, tokens) EXCEPT !.saveTokensCalls = @ + 1,
                                            !.verifierAfterSave = v.codeVerifier]

\* persistence.clear(scope)
persistence_clear(v, scope) ==
  CASE scope = "all" -> [v EXCEPT !.tokens = "", !.codeVerifier = "", !.state = "",
                                   !.clientInfo = ""]
    [] scope = "tokens" -> [v EXCEPT !.tokens = ""]
    [] scope = "verifier" -> [v EXCEPT !.codeVerifier = ""]
    [] scope = "client" -> [v EXCEPT !.clientInfo = ""]

\* saveClientInformation(clientInformation), lines 346-353: the SDK saves
\* the result of the dynamic registration
SaveClientInformation ==
  /\ provider.phase = "created"
  /\ vault.clientInfo = ""
  /\ vault' = [vault EXCEPT !.clientInfo = "client-1"]
  /\ UNCHANGED <<provider, listener, deferreds, handlers, lastResponse, closing, callCount>>
  /\ UNCHANGED notSession

\* saveCodeVerifier(codeVerifier), lines 373-375: the SDK saves the PKCE
\* verifier before it redirects to the authorization server
SaveCodeVerifier ==
  /\ provider.phase = "created"
  /\ vault.codeVerifier = ""
  /\ vault' = [vault EXCEPT !.codeVerifier = "verifier-1"]
  /\ UNCHANGED <<provider, listener, deferreds, handlers, lastResponse, closing, callCount>>
  /\ UNCHANGED notSession

\* the SDK has exchanged the authorization code, using the persisted verifier,
\* and calls saveTokens with the tokens of the response
SaveTokens ==
  /\ provider.phase = "created"
  /\ vault.codeVerifier # ""
  /\ vault.saveTokensCalls < MaxCalls
  /\ vault' = saveTokens(vault, "tokens-1")
  /\ UNCHANGED <<provider, listener, deferreds, handlers, lastResponse, closing, callCount>>
  /\ UNCHANGED notSession

\* invalidateCredentials(scope), lines 386-388
InvalidateCredentials ==
  /\ provider.phase = "created"
  /\ \E scope \in {"all", "client", "tokens", "verifier"} :
       /\ vault' = persistence_clear(vault, scope)
       /\ vault' # vault
  /\ UNCHANGED <<provider, listener, deferreds, handlers, lastResponse, closing, callCount>>
  /\ UNCHANGED notSession

\* the creation of a session and the artifacts it persists
NextCreate ==
  \/ Create
  \/ ProviderState
  \/ SaveClientInformation
  \/ SaveCodeVerifier
  \/ SaveTokens
  \/ InvalidateCredentials

SpecCreate == InitSession /\ [][NextCreate]_vars

\* a session created with the loopback defaults, or with a redirect URL that
\* names a port and a path
InitCallbacks ==
  /\ BuilderIdle
  /\ promote = PromoteIdle
  /\ runtime = RuntimeIdle
  /\ build = BuildIdle
  /\ UtilitiesIdle
  /\ \E override \in {NoUrl, Url("localhost", 8080, "/cb")} :
       /\ provider = create(override, "ok", "ok").provider
       /\ listener = create(override, "ok", "ok").listener
  /\ deferreds = <<>>
  /\ handlers = <<>>
  /\ lastResponse = [seq |-> 0]
  /\ closing = [inFlight |-> 0, started |-> 0, completed |-> 0, last |-> [seq |-> 0]]
  /\ vault = EmptyVault
  /\ callCount = [redirects |-> 0, waits |-> 0, requests |-> 0, closes |-> 0]

\* the calls of the provider and the requests of the callback listener
NextSession ==
  \/ RedirectToAuthorization
  \/ WaitForAuthorizationCode
  \/ ProviderState
  \/ HandlerReceive
  \/ HandlerRespond
  \/ CloseStart
  \/ CloseFinish

SpecSession == InitCallbacks /\ [][NextSession]_vars

SessionTypeOK ==
  /\ provider.authorizationDeferred \in 0..Len(deferreds)
  /\ closing.inFlight >= 0
  /\ Len(handlers) <= MaxCalls

(* ----------------------- claims about the session --------------------- *)

\* the stable port was in use and the listener got a port from the system
StablePortFallback ==
  /\ provider.phase = "created"
  /\ provider.override = NoUrl
  /\ listener.listenCalls = <<DEFAULT_CALLBACK_PORT, 0>>

\* C14: the redirect_uris of the client metadata of a created session contain
\* the redirect URL of the listener the session bound; after the fallback from
\* 127.0.0.1:33418 to a port assigned by the system they contain the URI of
\* the stable port and the URI of the assigned port.
C14_RedirectUrisCoverListener ==
  provider.phase = "created"
    => /\ provider.redirectUrl.port = listener.port
       /\ UrlToString(provider.redirectUrl) \in provider.redirect_uris
       /\ StablePortFallback
            => /\ UrlToString(Url(CALLBACK_HOST, DEFAULT_CALLBACK_PORT, "/"))
                    \in provider.redirect_uris
               /\ UrlToString(Url(CALLBACK_HOST, listener.port, "/"))
                    \in provider.redirect_uris

\* without the fallback the redirect URL of the listener is registered
C14_HoldsWithoutFallback ==
  (provider.phase = "created" /\ ~StablePortFallback)
    => /\ provider.redirectUrl.port = listener.port
       /\ UrlToString(provider.redirectUrl) \in provider.redirect_uris

\* C19: whenever saveTokens has returned, no code verifier was persisted at
\* that moment: the vault does not hold the saved tokens together with a
\* code verifier.
C19_VerifierClearedAfterSaveTokens ==
  vault.saveTokensCalls > 0 => vault.verifierAfterSave = ""

SessionClosedMessage == "OAuth session closed before receiving authorization code."

\* a promise that no statement of the provider can settle any more
Orphaned(d) ==
  deferreds[d].status = "pending" /\ provider.authorizationDeferred # d

\* C15: every promise that waitForAuthorizationCode has handed out is settled
\* at most once, with a code of a callback or with a rejection, and while it is
\* pending it is the deferred the handler and close() will settle, so that it
\* cannot stay pending for ever.
C15_HandedOutPromisesSettle ==
  \A d \in 1..Len(deferreds) :
    deferreds[d].handedOut
      => /\ deferreds[d].settleCalls <= 1
         /\ ~Orphaned(d)
         /\ deferreds[d].status = "resolved" => deferreds[d].value = "code-a"
         /\ deferreds[d].status = "rejected"
              => deferreds[d].value \in {SessionClosedMessage, "OAuth error",
                                         "Missing authorization code",
                                         "Invalid OAuth state", "handler error"}

\* what holds of every deferred: it is settled at most once
C15_NeverSettledTwice ==
  \A d \in 1..Len(deferreds) :
    /\ deferreds[d].settleCalls <= 1
    /\ (deferreds[d].status = "pending") = (deferreds[d].settleCalls = 0)

\* the last request came by a path the handler accepts and the handler read
\* the persisted state
LastRequestHandled ==
  /\ lastResponse.seq > 0
  /\ lastResponse.status \notin {0, 404}

\* C16 as stated: a request on the redirect path whose state parameter is
\* present and differs from the persisted state is answered 400 'Invalid OAuth
\* state' and rejects the pending promise, never resolving it.
C16_Original ==
  (/\ LastRequestHandled
   /\ lastResponse.expectedState # ""
   /\ lastResponse.state.present
   /\ lastResponse.state.text # lastResponse.expectedState)
    => /\ lastResponse.status = 400
       /\ lastResponse.body = "Invalid OAuth state"
       /\ lastResponse.settle = "rejected"

\* C16 amended: when a state is persisted, a request on an accepted path whose
\* state parameter is non-empty and differs from it is answered 400 'Invalid
\* OAuth state' and rejects the pending promise, whatever its code parameter
\* holds; a request whose state parameter is absent or empty, or that arrives
\* when no state is persisted, is not checked for its state.
C16_StateMismatchRejected ==
  LastRequestHandled
    => LET r == lastResponse
           mismatch == r.expectedState # "" /\ r.state.present /\ r.state.text # ""
                         /\ r.state.text # r.expectedState
       IN /\ mismatch
               => /\ r.status = 400
                  /\ r.body = "Invalid OAuth state"
                  /\ r.settle = "rejected"
                  /\ r.deferred # 0
                       => /\ deferreds[r.deferred].status = "rejected"
                          /\ deferreds[r.deferred].value = "Invalid OAuth state"
          /\ ~mismatch => r.body # "Invalid OAuth state"

C16_Witness ==
  /\ LastRequestHandled
  /\ lastResponse.expectedState = "s1"
  /\ lastResponse.state = Param("s2")
  /\ lastResponse.code = Param("code-a")
  /\ lastResponse.status = 400
  /\ lastResponse.deferred # 0
  /\ deferreds[lastResponse.deferred].handedOut
  /\ deferreds[lastResponse.deferred].value = "Invalid OAuth state"

\* a request with an empty state parameter passes although a state is persisted
C16_EmptyStateWitness ==
  /\ LastRequestHandled
  /\ lastResponse.expectedState = "s1"
  /\ lastResponse.state = Param("")
  /\ lastResponse.status = 200
  /\ lastResponse.deferred # 0
  /\ deferreds[lastResponse.deferred].status = "resolved"

\* the rule the claim gives for a request on the redirect path whose state is
\* accepted: by its code and error parameters
AnsweredByCodeAndError(r) ==
  IF Truthy(r.code)
    THEN /\ r.status = 200
         /\ r.settle = "resolved"
         /\ r.value = r.code.text
  ELSE IF Truthy(r.error)
    THEN /\ r.status = 400
         /\ r.settle = "rejected"
         /\ r.value = "OAuth error"
  ELSE /\ r.status = 400
       /\ r.body = "Missing authorization code"
       /\ r.settle = "rejected"
       /\ r.value = "Missing authorization code"

\* the state of the request was not a reason to refuse it
StateAccepted(r) ==
  ~(r.expectedState # "" /\ Truthy(r.state) /\ r.state.text # r.expectedState)

\* the deferred a request settled holds what the rule gave it
SettledAsAnswered(r) ==
  r.deferred # 0
    => /\ deferreds[r.deferred].status = r.settle
       /\ deferreds[r.deferred].value = r.value
       /\ deferreds[r.deferred].settleCalls = 1

\* a request that is answered 404 settles no deferred and leaves the field alone
NotFoundTouchesNothing ==
  (lastResponse'.seq # lastResponse.seq /\ lastResponse'.status = 404)
    => /\ deferreds' = deferreds
       /\ provider'.authorizationDeferred = provider.authorizationDeferred

\* C17 as stated: every request is answered by one rule; a path other than the
\* redirect path gets 404 and leaves the pending promise untouched; on the
\* redirect path with the state accepted the code and error parameters decide.
C17_Original ==
  lastResponse.seq > 0
    => LET r == lastResponse
       IN /\ r.path # r.expectedPath => (r.status = 404 /\ r.deferred = 0)
          /\ (r.path = r.expectedPath /\ StateAccepted(r)) => AnsweredByCodeAndError(r)

\* C17 amended: a request whose target parses, whose path is the redirect path
\* or, when the redirect path is /, the path /callback, and for which the
\* persisted state could be read, is answered by one rule: with its state
\* accepted a code gets 200 and resolves the promise with that code, an error
\* without a code gets 400 and rejects it, neither gets 400 'Missing
\* authorization code' and rejects it. Any other path gets 404 and leaves the
\* promise untouched. A request whose target does not parse, or for which
\* reading the state fails, gets no answer and rejects the promise.
C17_CallbackRules ==
  /\ [](lastResponse.seq > 0
          => LET r == lastResponse
                 accepted == \/ r.path = r.expectedPath
                             \/ (r.expectedPath = "/" /\ r.path = "/callback")
                 threw == r.path = "//" \/ r.expectedState = "<unread>"
             IN /\ SettledAsAnswered(r)
                /\ threw => (r.status = 0 /\ r.body = "" /\ r.settle = "rejected")
                /\ (~threw /\ ~accepted)
                     => (r.status = 404 /\ r.settle = "none" /\ r.deferred = 0)
                /\ (~threw /\ accepted) => r.status \in {200, 400}
                /\ (~threw /\ accepted /\ StateAccepted(r)) => AnsweredByCodeAndError(r))
  /\ [][NotFoundTouchesNothing]_vars

\* a request on the fallback path /callback resolved a promise that was handed out
C17_Witness ==
  /\ lastResponse.seq > 0
  /\ lastResponse.expectedPath = "/"
  /\ lastResponse.path = "/callback"
  /\ lastResponse.status = 200
  /\ lastResponse.deferred # 0
  /\ deferreds[lastResponse.deferred].handedOut
  /\ deferreds[lastResponse.deferred].status = "resolved"
  /\ deferreds[lastResponse.deferred].value = "code-a"

\* a request on another path was answered 404 while a promise was pending
C17_NotFoundWitness ==
  /\ lastResponse.seq > 0
  /\ lastResponse.status = 404
  /\ lastResponse.path = "/callback"
  /\ lastResponse.expectedPath = "/cb"
  /\ provider.authorizationDeferred # 0
  /\ deferreds[provider.authorizationDeferred].handedOut

\* a request was left without an answer and rejected the promise
C17_ThrewWitness ==
  /\ lastResponse.seq > 0
  /\ lastResponse.status = 0
  /\ lastResponse.deferred # 0
  /\ deferreds[lastResponse.deferred].handedOut
  /\ deferreds[lastResponse.deferred].value = "handler error"

\* a close() that begins after an earlier close() has completed changes nothing
\* of the listener, and rejects nothing unless a promise was made since
LaterCloseChangesNothing ==
  (closing'.started # closing.started /\ closing.completed > 0)
    => /\ listener' = listener
       /\ provider'.server = provider.server
       /\ provider.authorizationDeferred = 0 => deferreds' = deferreds

\* C18: close() rejects the pending code promise with 'OAuth session closed
\* before receiving authorization code' and closes the listener; a close()
\* called after a completed close() completes at once, does not call
\* server.close again and rejects nothing that was pending at the earlier one.
C18_CloseIdempotent ==
  /\ [](closing.started > 0
          => LET last == closing.last
             IN /\ listener.state = "closed"
                /\ listener.closeCalls >= 1
                /\ last.rejected # 0
                     => /\ deferreds[last.rejected].status = "rejected"
                        /\ deferreds[last.rejected].value = SessionClosedMessage
                        /\ deferreds[last.rejected].settleCalls = 1
                        /\ deferreds[last.rejected].born = last.seq - 1
                /\ \A d \in 1..Len(deferreds) :
                     deferreds[d].born < closing.started
                       => provider.authorizationDeferred # d
                /\ last.priorCompleted > 0 => ~last.calledServerClose
                /\ closing.completed = closing.started => ~provider.server)
  /\ [][LaterCloseChangesNothing]_vars

\* a second close() after a completed one: the first rejected a promise that
\* was handed out, the second rejected nothing and the listener was closed once
C18_Witness ==
  /\ closing.started = 2
  /\ closing.completed = 2
  /\ closing.last.priorCompleted = 1
  /\ closing.last.rejected = 0
  /\ ~closing.last.calledServerClose
  /\ listener.state = "closed"
  /\ listener.closeCalls = 1
  /\ \E d \in 1..Len(deferreds) :
       /\ deferreds[d].handedOut
       /\ deferreds[d].status = "rejected"
       /\ deferreds[d].value = SessionClosedMessage

\* a close() that begins while an earlier one awaits server.close calls
\* server.close a second time on the listener that is already closed
C18_OverlappingWitness ==
  /\ closing.started = 2
  /\ closing.last.calledServerClose
  /\ listener.closeCalls = 2

(* ----------------------------- the runtime ----------------------------- *)

\* operations a task may start on the runtime
MaxTaskOps == 2

RuntimeOps == {"connect", "listTools", "callTool", "close"}

\* the live contexts of a server
LiveContexts(s) == {c \in runtime.live : c.server = s}

\* a task calls connect / listTools / callTool / close for a server and waits
\* for the mutex of that server
RuntimeCall ==
  \E t \in Tasks, op \in RuntimeOps, s \in Servers :
    /\ runtime.task[t].pc = "idle"
    /\ runtime.task[t].started < MaxTaskOps
    /\ runtime' = [runtime EXCEPT !.task[t] = [pc |-> "waiting", op |-> op, server |-> s,
                                               ctx |-> 0, started |-> @.started + 1,
                                               uncached |-> runtime.clients[s] = 0,
                                               failed |-> FALSE]]
    /\ UNCHANGED notRuntime

\* where a task that holds the mutex goes: the cache is looked up inside the
\* critical section
AfterAcquire(t) ==
  LET s == runtime.task[t].server
      op == runtime.task[t].op
  IN IF op = "close" THEN "closing"
     ELSE IF runtime.clients[s] = 0 THEN "connecting"
     ELSE IF op = "connect" THEN "returning"
     ELSE "sending"

MutexAcquire_NoMutex ==
  \E t \in Tasks :
    LET s == runtime.task[t].server
    IN /\ runtime.task[t].pc = "waiting"
       /\ runtime' = [runtime EXCEPT !.lock[s] = t,
                                     !.task[t].pc = AfterAcquire(t),
                                     !.task[t].ctx = runtime.clients[s]]
       /\ UNCHANGED notRuntime

\* the mutex of the server is free: the task takes it
MutexAcquire ==
  \E t \in Tasks :
    LET s == runtime.task[t].server
    IN /\ runtime.task[t].pc = "waiting"
       /\ runtime.lock[s] = "free"
       /\ runtime' = [runtime EXCEPT !.lock[s] = t,
                                     !.task[t].pc = AfterAcquire(t),
                                     !.task[t].ctx = runtime.clients[s]]
       /\ UNCHANGED notRuntime

\* the mutex is released by the task that holds it
Released(lock, s, t) == [lock EXCEPT ![s] = IF @ = t THEN "free" ELSE @]

\* createClientContext settles: a context is cached and live, or the connect
\* error is thrown to the caller
ConnectSettles ==
  \E t \in Tasks, ok \in BOOLEAN :
    LET s == runtime.task[t].server
        id == runtime.created[s] + 1
    IN /\ runtime.task[t].pc = "connecting"
       /\ runtime' =
            IF ok
              THEN [runtime EXCEPT !.created[s] = id,
                                   !.live = @ \cup {[server |-> s, id |-> id]},
                                   !.clients[s] = id,
                                   !.task[t].ctx = id,
                                   !.task[t].pc = IF runtime.task[t].op = "connect"
                                                    THEN "returning" ELSE "sending"]
              ELSE [runtime EXCEPT !.lock = Released(@, s, t),
                                   !.task[t].pc = "idle"]
       /\ UNCHANGED notRuntime

\* connect(server) returns the context
ConnectReturns ==
  \E t \in Tasks :
    LET s == runtime.task[t].server
    IN /\ runtime.task[t].pc = "returning"
       /\ runtime' = [runtime EXCEPT !.lock = Released(@, s, t),
                                     !.task[t].pc = "idle"]
       /\ UNCHANGED notRuntime

\* listTools / callTool writes its request to the transport of the context
RequestSend ==
  \E t \in Tasks :
    LET s == runtime.task[t].server
    IN /\ runtime.task[t].pc = "sending"
       /\ runtime' = [runtime EXCEPT !.onWire[s] = @ \cup {t},
                                     !.task[t].pc = "responding"]
       /\ UNCHANGED notRuntime

\* definition.lifecycle of the configured servers
Lifecycle(s) == IF s = "a" THEN "keep-alive" ELSE "ephemeral"

\* what the runtime holds for server s once a call on it has returned
AfterCall_KeepCached(rt, s) == rt

AfterCall(rt, s) ==
  IF Lifecycle(s) = "ephemeral"
    THEN [rt EXCEPT !.live = @ \ {[server |-> s, id |-> rt.clients[s]]},
                    !.clients[s] = 0]
    ELSE rt

\* the answer of the server arrives or the request fails: listTools /
\* callTool returns or throws, after the context of an ephemeral server was closed
RequestSettles ==
  \E t \in Tasks, ok \in BOOLEAN :
    LET s == runtime.task[t].server
        returned == [runtime EXCEPT !.onWire[s] = @ \ {t},
                                    !.lock = Released(@, s, t),
                                    !.task[t].pc = "idle",
                                    !.task[t].failed = ~ok]
    IN /\ runtime.task[t].pc = "responding"
       /\ runtime' = AfterCall(returned, s)
       /\ UNCHANGED notRuntime

\* close(server): the cached context is removed and closed
CloseContext ==
  \E t \in Tasks :
    LET s == runtime.task[t].server
    IN /\ runtime.task[t].pc = "closing"
       /\ runtime' = [runtime EXCEPT !.live = @ \ {[server |-> s, id |-> runtime.clients[s]]},
                                     !.clients[s] = 0,
                                     !.lock = Released(@, s, t),
                                     !.task[t].pc = "idle"]
       /\ UNCHANGED notRuntime

InitRuntime ==
  /\ BuilderIdle
  /\ promote = PromoteIdle
  /\ SessionIdle
  /\ runtime = RuntimeIdle
  /\ build = BuildIdle
  /\ UtilitiesIdle

NextRuntime ==
  \/ RuntimeCall
  \/ MutexAcquire
  \/ ConnectSettles
  \/ ConnectReturns
  \/ RequestSend
  \/ RequestSettles
  \/ CloseContext

SpecRuntime == InitRuntime /\ [][NextRuntime]_vars

\* C20: at every moment a server has at most one live ClientContext, the one
\* the runtime caches, also when several calls for the server begin while
\* none is cached; at most one request is in progress on the transport of a
\* server, and no task connects to a server while another uses its context.
C20_OneContextPerServer ==
  \A s \in Servers :
    /\ Cardinality(LiveContexts(s)) <= 1
    /\ \A c \in LiveContexts(s) : runtime.clients[s] = c.id
    /\ Cardinality(runtime.onWire[s]) <= 1
    /\ Cardinality({t \in Tasks : /\ runtime.task[t].server = s
                                  /\ runtime.task[t].pc \notin {"idle", "waiting"}}) <= 1

\* two tasks began a call for one server while no context was cached; the
\* first has connected and returned, the second uses the context the first made
C20_Witness ==
  \E s \in Servers :
    /\ runtime.task["t1"].server = s
    /\ runtime.task["t2"].server = s
    /\ runtime.task["t1"].started = 1
    /\ runtime.task["t2"].started = 1
    /\ runtime.task["t1"].uncached
    /\ runtime.task["t2"].uncached
    /\ runtime.task["t1"].pc = "idle"
    /\ runtime.task["t1"].ctx = 1
    /\ runtime.task["t2"].pc = "responding"
    /\ runtime.task["t2"].ctx = 1
    /\ runtime.created[s] = 1
    /\ LiveContexts(s) = {[server |-> s, id |-> 1]}

\* task t returns from a listTools / callTool on server s in this step
CallReturns(t, s) ==
  /\ runtime.task[t].pc = "responding"
  /\ runtime'.task[t].pc = "idle"
  /\ runtime.task[t].server = s

\* a task is closing the context of server s
ClosingContext(s) ==
  \E t \in Tasks : runtime.task[t].server = s /\ runtime.task[t].pc = "closing"

\* C21: when a listTools / callTool on an ephemeral server returns, with a
\* result or an error, its context is closed and no longer cached; on a
\* keep-alive server the context stays cached and live, a later call uses the
\* cached context without connecting again, and only close() removes it.
C21_LifecycleStep ==
  \A s \in Servers :
    /\ \A t \in Tasks :
         CallReturns(t, s)
           => IF Lifecycle(s) = "ephemeral"
                THEN /\ runtime'.clients[s] = 0
                     /\ {c \in runtime'.live : c.server = s} = {}
                ELSE /\ runtime'.clients[s] = runtime.clients[s]
                     /\ runtime'.clients[s] # 0
                     /\ runtime'.live = runtime.live
    /\ Lifecycle(s) = "keep-alive"
         => /\ (runtime.clients[s] # 0 /\ runtime'.clients[s] # runtime.clients[s])
                 => ClosingContext(s)
            /\ (runtime.clients[s] # 0 /\ ~ClosingContext(s))
                 => runtime'.created[s] = runtime.created[s]

C21_LifecycleHonoured == [][C21_LifecycleStep]_vars

\* one task made two calls on the ephemeral server and connected for each, the
\* second of them failing; the other made two calls on the keep-alive server
\* and connected once
C21_Witness ==
  /\ runtime.task["t1"].server = "b"
  /\ runtime.task["t1"].started = 2
  /\ runtime.task["t1"].pc = "idle"
  /\ runtime.task["t1"].op \in {"listTools", "callTool"}
  /\ runtime.task["t1"].failed
  /\ runtime.created["b"] = 2
  /\ runtime.clients["b"] = 0
  /\ LiveContexts("b") = {}
  /\ runtime.task["t2"].server = "a"
  /\ runtime.task["t2"].started = 2
  /\ runtime.task["t2"].pc = "idle"
  /\ runtime.task["t2"].op \in {"listTools", "callTool"}
  /\ runtime.task["t2"].ctx = 1
  /\ runtime.created["a"] = 1
  /\ runtime.clients["a"] = 1
  /\ LiveContexts("a") = {[server |-> "a", id |-> 1]}

(* ------------- createClientContext: cached auth and env scope ------------- *)

\* a header of command.headers: a key of the record, as written, and its value
Header(name, value) == [name |-> name, value |-> value]

\* command.headers of the definitions that are explored; {} also stands for
\* no headers at all (command.headers ?? {})
HeaderChoices ==
  {{},
   {Header("X-Api-Key", "k")},
   {Header("Authorization", "Basic preset")},
   {Header("authorization", "Basic preset"), Header("X-Api-Key", "k")}}

\* the name of a header field in lower case: field names are case-insensitive
Lower(name) == IF name = "Authorization" THEN "authorization" ELSE name

\* 'Authorization' in existingHeaders: an own key of exactly that spelling
HasKey_AnyCase(hs, key) == \E h \in hs : Lower(h.name) = Lower(key)

HasKey(hs, key) == \E h \in hs : h.name = key

\* { ...existingHeaders, Authorization: `Bearer ${cached}` }
WithBearer_Always(hs, hasIt, cached) ==
  {h \in hs : h.name # "Authorization"} \cup {Header("Authorization", cached)}

\* lines 133-144: the headers of activeDefinition after the cached token was read
WithBearer(hs, hasIt, cached) ==
  IF ~hasIt
    THEN {h \in hs : h.name # "Authorization"} \cup {Header("Authorization", cached)}
    ELSE hs

\* what readCachedAccessToken(definition, logger) yields: a token, undefined, or an error
CachedOutcomes == {"token", "none", "throws"}

BearerToken == "Bearer token"

\* definition.env of the definitions that are explored ("<none>": no entry)
EnvChoices ==
  {[v \in EnvVars |-> "<none>"],
   [v \in EnvVars |-> "new"]}

\* process.env when createClientContext is called: A is set, B is not
ProcessEnvChoices ==
  {[v \in EnvVars |-> IF v = "A" THEN "old" ELSE "<unset>"]}

\* withEnvOverrides: the overrides are written over process.env
applyEnv(penv, overrides) ==
  [v \in EnvVars |-> IF overrides[v] = "<none>" THEN penv[v] ELSE overrides[v]]

restoreEnv_KeepAdded(penv, before, overrides) ==
  [v \in EnvVars |-> IF overrides[v] = "<none>" \/ before[v] = "<unset>"
                       THEN penv[v] ELSE before[v]]

\* withEnvOverrides, on the way out: every overridden variable gets the value
\* it had, and is deleted when it had none
restoreEnv(penv, before, overrides) ==
  [v \in EnvVars |-> IF overrides[v] = "<none>" THEN penv[v] ELSE before[v]]

\* createClientContext(definition, logger, clientInfo, options) is called
InitContext ==
  /\ entry = "createClientContext"
  /\ \E kind \in {"stdio", "http"}, auth \in {"none", "oauth"} :
       definition = [name |-> "x", kind |-> kind, auth |-> auth]
  /\ pc = "entry"
  /\ sessions = <<>>
  /\ transports = <<>>
  /\ cwa = IdleCwa
  /\ InitCommon
  /\ options.maxOAuthAttempts \in {Undefined, Num(0)}
  /\ timeoutSource = "option"
  /\ options.oauthTimeoutMs = Num(1)
  /\ \E allow \in BOOLEAN, hs \in HeaderChoices, env \in EnvChoices,
        penv \in ProcessEnvChoices :
       build = [phase |-> "called", allowCachedAuth |-> allow, cached |-> "unread",
                existingHeaders |-> hs, headers |-> hs, env |-> env,
                processEnv |-> penv, envBefore |-> penv]
  /\ promote = PromoteIdle
  /\ SessionIdle
  /\ runtime = RuntimeIdle
  /\ UtilitiesIdle

\* lines 128-154: with allowCachedAuth, for an oauth HTTP definition, the
\* cached access token is read and, if there is one, added to the headers
CachedAuth ==
  /\ pc = "entry"
  /\ build.phase = "called"
  /\ IF build.allowCachedAuth /\ activeDefinition.auth = "oauth"
          /\ activeDefinition.kind = "http"
       THEN \E outcome \in CachedOutcomes :
              build' = [build EXCEPT
                          !.phase = "prepared",
                          !.cached = outcome,
                          !.headers = IF outcome = "token"
                                        THEN WithBearer(build.existingHeaders,
                                                        HasKey(build.existingHeaders,
                                                               "Authorization"),
                                                        BearerToken)
                                        ELSE @]
       ELSE build' = [build EXCEPT !.phase = "prepared"]
  /\ UNCHANGED builderVars
  /\ UNCHANGED <<promoteVars, sessionVars, runtimeVars, utilVars, commandVars>>

\* line 156: withEnvOverrides(activeDefinition.env, ...) applies the overrides
\* and calls the body
WithEnvOverridesEnter ==
  /\ pc = "entry"
  /\ build.phase = "prepared"
  /\ build' = [build EXCEPT !.phase = "body",
                            !.envBefore = build.processEnv,
                            !.processEnv = applyEnv(build.processEnv, build.env)]
  /\ pc' = IF activeDefinition.kind = "stdio" THEN "stdio" ELSE "loop"
  /\ UNCHANGED <<entry, definition, options, timeoutSource, activeDefinition, iterations,
                 oauthSession, sessions, transports, cwa, timer, elapsed, primaryError,
                 result, connectCalls, unauthorizedReconnects, promotedCalls, timedOut>>
  /\ UNCHANGED <<promoteVars, sessionVars, runtimeVars, utilVars, commandVars>>

\* the body has returned or thrown: withEnvOverrides restores process.env and
\* createClientContext settles
WithEnvOverridesExit ==
  /\ pc = "done"
  /\ build.phase = "body"
  /\ build' = [build EXCEPT !.phase = "returned",
                            !.processEnv = restoreEnv(build.processEnv, build.envBefore,
                                                      build.env)]
  /\ UNCHANGED builderVars
  /\ UNCHANGED <<promoteVars, sessionVars, runtimeVars, utilVars, commandVars>>

NextContext ==
  \/ CachedAuth
  \/ WithEnvOverridesEnter
  \/ WithEnvOverridesExit
  \/ StdioConnect
  \/ StdioCatch
  \/ LoopTop
  \/ MaterializeHeaders
  \/ AttemptConnect
  \/ CwaConnect
  \/ WaitTick
  \/ WaitCode
  \/ WaitRejected
  \/ WaitTimeout
  \/ FinishAuth
  \/ AttemptConnectReturn
  \/ AttemptConnectCatch
  \/ PrimaryCatch
  \/ SseReturn
  \/ SseCatch

SpecContext == InitContext /\ [][NextContext]_vars

\* C22: when createClientContext has settled, with a context or with an error,
\* every variable of process.env holds the value it had when the overrides
\* were applied, and a variable that was unset then is unset.
C22_EnvRestored ==
  build.phase = "returned"
    => \A v \in EnvVars : build.processEnv[v] = build.envBefore[v]

\* a build that failed had overridden a variable that was set and one that was not
C22_Witness ==
  /\ build.phase = "returned"
  /\ result.status = "error"
  /\ build.env["A"] = "new"
  /\ build.env["B"] = "new"
  /\ build.envBefore["A"] = "old"
  /\ build.envBefore["B"] = "<unset>"
  /\ build.processEnv["A"] = "old"
  /\ build.processEnv["B"] = "<unset>"

\* the same for a build that returned a context
C22_SuccessWitness ==
  /\ build.phase = "returned"
  /\ result.status = "ok"
  /\ build.env["B"] = "new"
  /\ build.processEnv["B"] = "<unset>"

\* while the body runs the overrides are in process.env
C22_AppliedWitness ==
  /\ build.phase = "body"
  /\ connectCalls > 0
  /\ build.envBefore["B"] = "<unset>"
  /\ build.processEnv["B"] = "new"

\* the cached-auth block ran and readCachedAccessToken yielded a token
CachedTokenFound == build.phase \notin {"idle", "called"} /\ build.cached = "token"

\* C23: a cached token is added as 'Authorization: Bearer <token>' only if
\* the headers of the definition do not already set Authorization (a header
\* field, whatever the case of its name); a header that is set is not
\* touched, no second Authorization entry is added next to it, and every
\* other header is kept.
C23_BearerOnlyIfNotSet ==
  build.phase \notin {"idle", "called"}
    => LET preset == HasKey_AnyCase(build.existingHeaders, "Authorization")
       IN /\ (CachedTokenFound /\ ~preset)
               => build.headers = build.existingHeaders
                                    \cup {Header("Authorization", BearerToken)}
          /\ preset => build.headers = build.existingHeaders
          /\ ~CachedTokenFound => build.headers = build.existingHeaders

\* what holds: the same with "set" read as an own key spelled 'Authorization'
C23_ExactKeyHolds ==
  build.phase \notin {"idle", "called"}
    => LET preset == HasKey(build.existingHeaders, "Authorization")
       IN /\ (CachedTokenFound /\ ~preset)
               => build.headers = build.existingHeaders
                                    \cup {Header("Authorization", BearerToken)}
          /\ preset => build.headers = build.existingHeaders
          /\ ~CachedTokenFound => build.headers = build.existingHeaders
          /\ \A h \in build.existingHeaders : h \in build.headers

\* the definition sets 'authorization' and the headers get 'Authorization' as well
C23_LowerCaseWitness ==
  /\ CachedTokenFound
  /\ Header("authorization", "Basic preset") \in build.headers
  /\ Header("Authorization", BearerToken) \in build.headers

\* the build returned a context from its first connect, made with the cached
\* token in the headers
FirstConnectSucceededWithBearer ==
  /\ CachedTokenFound
  /\ Header("Authorization", BearerToken) \in build.headers
  /\ result.status = "ok"
  /\ Len(transports) = 1
  /\ unauthorizedReconnects = 0

\* C24: with a cached token in the headers and a first connect that succeeds,
\* the build makes exactly one connect call, constructs no OAuth session and
\* launches no browser.
C24_CachedTokenNoSession ==
  FirstConnectSucceededWithBearer
    => /\ connectCalls = 1
       /\ sessions = <<>>
       /\ \A i \in 1..Len(sessions) : ~sessions[i].authorizationStarted

\* what holds: one connect call and no browser; a session is constructed
\* exactly when maxOAuthAttempts is not 0
C24_OneConnectNoBrowser ==
  FirstConnectSucceededWithBearer
    => /\ connectCalls = 1
       /\ \A i \in 1..Len(sessions) : ~sessions[i].authorizationStarted
       /\ (sessions = <<>>) = (options.maxOAuthAttempts = Num(0))
       /\ Len(sessions) <= 1

(* -------------------------- resolveOAuthScope -------------------------- *)

\* longest scopes_supported list that is explored
MaxScopes == 2

\* scope strings that are explored; "" is the empty string
ScopeNames == {"mcp:tools", "mcp:connect", "read", ""}

\* an optional array of strings
UndefinedList == [defined |-> FALSE, items |-> <<>>]

List(items) == [defined |-> TRUE, items |-> items]

ScopeLists ==
  {UndefinedList} \cup {List(items) : items \in UNION {[1..n -> ScopeNames] : n \in 0..MaxScopes}}

\* resourceMetadata / authorizationServerMetadata: undefined, or a document
\* with its scopes_supported
NoMetadata == [present |-> FALSE, scopes_supported |-> UndefinedList]

Metadata(scopes) == [present |-> TRUE, scopes_supported |-> scopes]

MetadataChoices == {NoMetadata} \cup {Metadata(l) : l \in ScopeLists}

\* fallbackScope: undefined or a string
NoFallback == [defined |-> FALSE, text |-> ""]

Fallback(text) == [defined |-> TRUE, text |-> text]

FallbackChoices == {NoFallback, Fallback("mcp:tools"), Fallback("custom"), Fallback("")}

\* supportedScopes.includes(name)
Includes(items, name) == \E i \in 1..Len(items) : items[i] = name

\* metadata?.scopes_supported
ScopesSupported(metadata) ==
  IF metadata.present THEN metadata.scopes_supported ELSE UndefinedList

resolveOAuthScope_MergeLists(opts) ==
  LET r == ScopesSupported(opts.resourceMetadata)
      a == ScopesSupported(opts.authorizationServerMetadata)
      supportedScopes == r.items \o a.items
  IN IF Len(supportedScopes) > 0
       THEN IF Includes(supportedScopes, "mcp:tools") THEN "mcp:tools"
            ELSE IF Includes(supportedScopes, "mcp:connect") THEN "mcp:connect"
            ELSE supportedScopes[1]
       ELSE IF opts.fallbackScope.defined THEN opts.fallbackScope.text
            ELSE "mcp:tools"

\* resolveOAuthScope(options), lines 82-101
resolveOAuthScope(opts) ==
  LET r == ScopesSupported(opts.resourceMetadata)
      supportedScopes == IF r.defined THEN r
                         ELSE ScopesSupported(opts.authorizationServerMetadata)
  IN IF supportedScopes.defined /\ Len(supportedScopes.items) > 0
       THEN IF Includes(supportedScopes.items, "mcp:tools") THEN "mcp:tools"
            ELSE IF Includes(supportedScopes.items, "mcp:connect") THEN "mcp:connect"
            ELSE supportedScopes.items[1]
       ELSE IF opts.fallbackScope.defined THEN opts.fallbackScope.text
            ELSE "mcp:tools"

\* resolveOAuthScope is about to be called with some options
InitScope ==
  /\ BuilderIdle
  /\ promote = PromoteIdle
  /\ SessionIdle
  /\ runtime = RuntimeIdle
  /\ build = BuildIdle
  /\ refresh = RefreshIdle
  /\ toolCall = CallIdle
  /\ CommandsIdle
  /\ \E r \in MetadataChoices, a \in MetadataChoices, f \in FallbackChoices :
       scopeCall = [phase |-> "called",
                    options |-> [resourceMetadata |-> r, authorizationServerMetadata |-> a,
                                 fallbackScope |-> f],
                    returned |-> ""]

\* the call returns
ResolveOAuthScopeCall ==
  /\ scopeCall.phase = "called"
  /\ scopeCall' = [scopeCall EXCEPT !.phase = "returned",
                                    !.returned = resolveOAuthScope(scopeCall.options)]
  /\ UNCHANGED notScope

NextScope == ResolveOAuthScopeCall

SpecScope == InitScope /\ [][NextScope]_vars

\* C25: for every combination of resource metadata, authorization-server
\* metadata and fallback, empty lists and empty strings included,
\* resolveOAuthScope returns a non-empty string.
C25_ScopeNonEmpty ==
  scopeCall.phase = "returned" => scopeCall.returned # ""

\* every scope string and the fallback of the options are non-empty
NoEmptyStrings(opts) ==
  /\ \A m \in {opts.resourceMetadata, opts.authorizationServerMetadata} :
       ~Includes(ScopesSupported(m).items, "")
  /\ opts.fallbackScope # Fallback("")

\* what holds: the result is non-empty when no scope string and no fallback
\* of the options is empty
C25_NonEmptyForNonEmptyInputs ==
  (scopeCall.phase = "returned" /\ NoEmptyStrings(scopeCall.options))
    => scopeCall.returned # ""

\* the scopes the resource and the authorization server advertise, in order
Advertised(opts) ==
  ScopesSupported(opts.resourceMetadata).items
    \o ScopesSupported(opts.authorizationServerMetadata).items

\* the order of preference read over both lists together: it does not hold,
\* the list of the authorization server is not looked at when the resource
\* metadata has one
C26_UnionReading ==
  scopeCall.phase = "returned"
    => LET adv == Advertised(scopeCall.options)
           f == scopeCall.options.fallbackScope
       IN scopeCall.returned =
            IF Includes(adv, "mcp:tools") THEN "mcp:tools"
            ELSE IF Includes(adv, "mcp:connect") THEN "mcp:connect"
            ELSE IF Len(adv) > 0 THEN adv[1]
            ELSE IF f.defined THEN f.text ELSE "mcp:tools"

C26_EmptyListWitness ==
  /\ scopeCall.phase = "returned"
  /\ scopeCall.options.resourceMetadata = Metadata(List(<<>>))
  /\ scopeCall.options.authorizationServerMetadata = Metadata(List(<<"mcp:connect">>))
  /\ scopeCall.options.fallbackScope = NoFallback
  /\ scopeCall.returned = "mcp:tools"

ServerUrl(hostname) == [protocol |-> "https", hostname |-> hostname, pathname |-> "/mcp"]

\* URL.origin: scheme and host, without path
Origin(u) == [protocol |-> u.protocol, hostname |-> u.hostname]

\* new URL(path, origin), and new URL(absolute) for an absolute URL
Endpoint(origin, path) == [origin |-> origin, pathname |-> path]

\* hostname.includes(needle), over whole labels
HostnameIncludes(hostname, needle) ==
  \E i \in 1..Len(hostname) :
    /\ i + Len(needle) - 1 <= Len(hostname)
    /\ SubSeq(hostname, i, i + Len(needle) - 1) = needle

Hostnames ==
  {<<"mcp", "example", "com">>, <<"homey", "example", "com">>, <<"mcp", "athom", "com">>}

\* definition.command: a stdio command or an HTTP command with its url
RefreshDefinitions ==
  {[kind |-> "stdio", url |-> ServerUrl(<<>>)]}
    \cup {[kind |-> "http", url |-> ServerUrl(h)] : h \in Hostnames}

\* what loadVaultEntry settles with: a rejection, undefined, or an entry; ""
\* stands for an absent or empty string
VaultEntry(refresh_token, hasClientInfo, client_id, client_secret) ==
  [threw |-> FALSE, defined |-> TRUE, refresh_token |-> refresh_token,
   hasClientInfo |-> hasClientInfo, client_id |-> client_id,
   client_secret |-> client_secret]

NoVaultEntry == [VaultEntry("", FALSE, "", "") EXCEPT !.defined = FALSE]

VaultReadError == [NoVaultEntry EXCEPT !.threw = TRUE]

LoadOutcomes ==
  {VaultReadError, NoVaultEntry,
   VaultEntry("", TRUE, "cid", ""), VaultEntry("r0", FALSE, "", ""),
   VaultEntry("r0", TRUE, "", ""), VaultEntry("r0", TRUE, "cid", ""),
   VaultEntry("r0", TRUE, "cid", "s")}

\* how one fetch ends: it rejects, or answers with response.ok, a body that
\* parses as JSON or not, and the tokens of that body
FetchOutcome(rejected, ok, json, access_token, refresh_token) ==
  [rejected |-> rejected, ok |-> ok, json |-> json,
   access_token |-> access_token, refresh_token |-> refresh_token]

FetchOutcomes ==
  {FetchOutcome(TRUE, FALSE, FALSE, "", ""), FetchOutcome(FALSE, FALSE, FALSE, "", ""),
   FetchOutcome(FALSE, TRUE, FALSE, "", ""), FetchOutcome(FALSE, TRUE, TRUE, "", "r1"),
   FetchOutcome(FALSE, TRUE, TRUE, "a1", ""), FetchOutcome(FALSE, TRUE, TRUE, "a1", "r1")}

\* the endpoint answers 2xx with a JSON body that has an access_token
Answers(o) == ~o.rejected /\ o.ok /\ o.json /\ o.access_token # ""

NoTokens == [access_token |-> "", refresh_token |-> ""]

\* the three paths tried at the origin of the server
TokenPaths == <<"/oauth2/token", "/token", "/.well-known/oauth-authorization-server">>

HomeyTokenEndpoint ==
  Endpoint([protocol |-> "https", hostname |-> <<"api", "athom", "com">>], "/oauth2/token")

ServerEndpoints(serverUrl) ==
  [i \in 1..Len(TokenPaths) |-> Endpoint(Origin(serverUrl), TokenPaths[i])]

possibleEndpoints(serverUrl) ==
  IF \/ HostnameIncludes(serverUrl.hostname, <<"athom", "com">>)
     \/ HostnameIncludes(serverUrl.hostname, <<"homey">>)
    THEN <<HomeyTokenEndpoint>> \o ServerEndpoints(serverUrl)
    ELSE ServerEndpoints(serverUrl)

\* the tokens handed to saveTokens
TokensToSave_DropRefresh(o, refresh_token) ==
  [access_token |-> o.access_token, refresh_token |-> o.refresh_token]

TokensToSave(o, refresh_token) ==
  [access_token |-> o.access_token,
   refresh_token |-> IF o.refresh_token = "" THEN refresh_token ELSE o.refresh_token]

InitRefresh ==
  /\ BuilderIdle
  /\ promote = PromoteIdle
  /\ SessionIdle
  /\ runtime = RuntimeIdle
  /\ build = BuildIdle
  /\ scopeCall = ScopeIdle
  /\ toolCall = CallIdle
  /\ CommandsIdle
  /\ \E d \in RefreshDefinitions :
       refresh = [phase |-> "entry", definition |-> d, entry |-> NoVaultEntry,
                  endpoints |-> <<>>, index |-> 1, requests |-> <<>>,
                  answers |-> <<>>, newTokens |-> NoTokens, saved |-> NoTokens,
                  saves |-> <<>>, result |-> ""]

\* a command that is not HTTP: nothing to refresh
NonHttpReturn ==
  /\ refresh.phase = "entry"
  /\ refresh.definition.kind # "http"
  /\ refresh' = [refresh EXCEPT !.phase = "returned"]
  /\ UNCHANGED notRefresh

\* await loadVaultEntry(definition), and the checks on the entry
LoadVaultEntry ==
  /\ refresh.phase = "entry"
  /\ refresh.definition.kind = "http"
  /\ \E e \in LoadOutcomes :
       refresh' =
         IF e.threw THEN [refresh EXCEPT !.phase = "threw", !.entry = e]
         ELSE IF ~e.defined \/ e.refresh_token = "" \/ ~e.hasClientInfo
           THEN [refresh EXCEPT !.phase = "returned", !.entry = e]
         ELSE IF e.client_id = ""
           THEN [refresh EXCEPT !.phase = "returned", !.entry = e]
         ELSE [refresh EXCEPT !.phase = "loop", !.entry = e,
                              !.endpoints = possibleEndpoints(refresh.definition.url)]
  /\ UNCHANGED notRefresh

\* one turn of the loop up to the tokens to save: the POST with the refresh
\* token, and the response
Fetch ==
  /\ refresh.phase = "loop"
  /\ refresh.index <= Len(refresh.endpoints)
  /\ \E o \in FetchOutcomes :
       LET request == [endpoint |-> refresh.endpoints[refresh.index],
                       grant_type |-> "refresh_token",
                       refresh_token |-> refresh.entry.refresh_token,
                       client_id |-> refresh.entry.client_id,
                       client_secret |-> refresh.entry.client_secret]
           sent == [refresh EXCEPT !.requests = Append(@, request),
                                   !.answers = Append(@, o)]
       IN refresh' =
            IF Answers(o)
              THEN [sent EXCEPT !.phase = "saving",
                                !.newTokens = TokensToSave(o, refresh.entry.refresh_token)]
              ELSE [sent EXCEPT !.index = @ + 1]
  /\ UNCHANGED notRefresh

\* buildOAuthPersistence and persistence.saveTokens(newTokens): saved, or an
\* error that the catch of this turn swallows
PersistTokens ==
  /\ refresh.phase = "saving"
  /\ \E ok \in BOOLEAN :
       refresh' =
         IF ok THEN [refresh EXCEPT !.phase = "saved", !.saved = refresh.newTokens,
                                    !.saves = Append(@, refresh.index)]
         ELSE [refresh EXCEPT !.phase = "loop", !.index = @ + 1]
  /\ UNCHANGED notRefresh

\* return newTokens.access_token
ReturnAccessToken ==
  /\ refresh.phase = "saved"
  /\ refresh' = [refresh EXCEPT !.phase = "returned",
                                !.result = refresh.newTokens.access_token]
  /\ UNCHANGED notRefresh

\* every endpoint failed
AllAttemptsFailed ==
  /\ refresh.phase = "loop"
  /\ refresh.index > Len(refresh.endpoints)
  /\ refresh' = [refresh EXCEPT !.phase = "returned"]
  /\ UNCHANGED notRefresh

NextRefresh ==
  \/ NonHttpReturn
  \/ LoadVaultEntry
  \/ Fetch
  \/ PersistTokens
  \/ ReturnAccessToken
  \/ AllAttemptsFailed

SpecRefresh == InitRefresh /\ [][NextRefresh]_vars

\* C27: every request that carries the refresh token goes to /oauth2/token,
\* /token or /.well-known/oauth-authorization-server at the origin of the
\* server's URL, in that order, and no request follows the first endpoint that
\* answered 2xx with a JSON access_token.
C27_OnlyServerOrigin ==
  /\ Len(refresh.requests) <= Len(TokenPaths)
  /\ \A i \in 1..Len(refresh.requests) :
       /\ refresh.requests[i].endpoint =
            Endpoint(Origin(refresh.definition.url), TokenPaths[i])
       /\ i < Len(refresh.requests) => ~Answers(refresh.answers[i])

\* what holds: the requests go to possibleEndpoints in order, which are the
\* three endpoints of the server unless its hostname names homey or athom.com,
\* and no request follows a saved answer
C27_EndpointsInOrder ==
  /\ Len(refresh.requests) <= Len(possibleEndpoints(refresh.definition.url))
  /\ \A i \in 1..Len(refresh.requests) :
       /\ refresh.requests[i].endpoint = possibleEndpoints(refresh.definition.url)[i]
       /\ i < Len(refresh.requests) => i \notin {refresh.saves[j] : j \in 1..Len(refresh.saves)}

\* the refresh token of a server at homey.example.com was posted to
\* api.athom.com
C27_OtherHostWitness ==
  /\ refresh.definition.url.hostname = <<"homey", "example", "com">>
  /\ Len(refresh.requests) > 0
  /\ refresh.requests[1].endpoint = HomeyTokenEndpoint
  /\ refresh.requests[1].refresh_token = "r0"

\* a second endpoint was asked after the first had answered with an
\* access_token, because saving the tokens failed
C27_AskedAfterAnswerWitness ==
  /\ Len(refresh.requests) = 2
  /\ Answers(refresh.answers[1])

\* C28: tryRefreshTokens never raises to its caller; every failure ends in a
\* return without a token.
C28_NeverRaises ==
  refresh.phase # "threw"

\* what holds: the call raises only when loadVaultEntry rejected, and every
\* other failure returns no token
C28_RaisesOnlyOnVaultRead ==
  /\ refresh.phase = "threw" => refresh.entry.threw
  /\ (refresh.phase = "returned" /\ refresh.saves = <<>>) => refresh.result = ""

\* C29: a returned access token is the one of the tokens persisted before the
\* return, the persisted refresh_token is the one of the response or, when
\* the response has none, the previous one; without persisted tokens nothing
\* is returned.
C29_PersistBeforeReturn ==
  /\ (refresh.phase = "returned" /\ refresh.result # "") =>
       /\ refresh.saves # <<>>
       /\ refresh.saved.access_token = refresh.result
  /\ refresh.saves # <<>> =>
       LET o == refresh.answers[refresh.saves[1]]
       IN /\ Answers(o)
          /\ refresh.saved.access_token = o.access_token
          /\ refresh.saved.refresh_token =
               IF o.refresh_token = "" THEN refresh.entry.refresh_token
               ELSE o.refresh_token
          /\ refresh.saved.refresh_token # ""
  /\ (refresh.phase = "returned" /\ refresh.saves = <<>>) => refresh.result = ""

\* the response had no refresh_token, the old one was persisted with the new
\* access token, and the access token was returned
C29_Witness ==
  /\ refresh.phase = "returned"
  /\ refresh.result = "a1"
  /\ refresh.answers[Len(refresh.answers)].refresh_token = ""
  /\ refresh.saved = [access_token |-> "a1", refresh_token |-> "r0"]

\* a save failed and the call returned nothing
C29_SaveFailedWitness ==
  /\ refresh.phase = "returned"
  /\ refresh.result = ""
  /\ \E i \in 1..Len(refresh.answers) : Answers(refresh.answers[i])

\* ---------------------------------------------------------------------------
\* handleCall / attemptCall: the call timeout
\* ---------------------------------------------------------------------------

MaxCatalog == 2

\* tool names as their characters: lI, l_i, lis and xyzw
ToolNames == {<<"l", "I">>, <<"l", "_", "i">>, <<"l", "i", "s">>, <<"x", "y", "z", "w">>}

\* runtime.listTools(server): the names of the tools of the server, in order
Catalogs ==
  UNION {{c \in [1..n -> ToolNames] : \A i, j \in 1..n : i # j => c[i] # c[j]} :
           n \in 0..MaxCatalog}

CallServers == {"chrome-devtools", "linear"}

TimeoutMsChoices == {10, 30000}

\* the text of a message: its wording and the names and number put into it
Message(text, server, tool, ms) == [text |-> text, server |-> server, tool |-> tool, ms |-> ms]

Plain(text) == Message(text, "", <<>>, 0)

\* an Error by its message; expired tells whether the timer of withTimeout
\* made it, which the code cannot see
CallError(message, expired) == [message |-> message, expired |-> expired]

NoCallError == CallError(Plain(""), FALSE)

\* "Tool <name> not found"
ToolNotFound(name) == Message("Tool <tool> not found", "", name, 0)

\* "Call to <server>.<tool> timed out after <ms>ms. Override ..."
TimedOutMessage(server, tool, timeoutMs) ==
  Message("Call to <server>.<tool> timed out after <ms>ms", server, tool, timeoutMs)

\* errors runtime.callTool can reject with before the timer fires
CallToolErrors(tool) ==
  {CallError(ToolNotFound(tool), FALSE), CallError(ToolNotFound(<<"x", "y", "z", "w">>), FALSE),
   CallError(Plain("boom"), FALSE),
   CallError(Plain("Timeout"), FALSE)}

\* withTimeout(promise, ms): the promise settles first and its outcome is
\* passed on, or the timer fires first and it rejects with Error('Timeout')
WithTimeoutOutcomes(tool) ==
  {[resolved |-> TRUE, error |-> NoCallError]}
    \cup {[resolved |-> FALSE, error |-> e] : e \in CallToolErrors(tool)}
    \cup {[resolved |-> FALSE, error |-> CallError(Plain("Timeout"), TRUE)]}

\* error instanceof Error && error.message === 'Timeout'
IsTimeout(error) == error.message = Plain("Timeout")

\* name.replace(/[^a-zA-Z0-9]/g, '').toLowerCase(), over the characters used
ToLowerCase(c) == IF c = "I" THEN "i" ELSE c

RECURSIVE normalizeToolName(_)
normalizeToolName(name) ==
  IF name = <<>> THEN <<>>
  ELSE IF Head(name) = "_" THEN normalizeToolName(Tail(name))
  ELSE <<ToLowerCase(Head(name))>> \o normalizeToolName(Tail(name))

\* name.toLowerCase()
RECURSIVE toLowerCase(_)
toLowerCase(name) ==
  IF name = <<>> THEN <<>>
  ELSE <<ToLowerCase(Head(name))>> \o toLowerCase(Tail(name))

Minimum(x, y) == IF x <= y THEN x ELSE y

Maximum(x, y) == IF x >= y THEN x ELSE y

\* the edit distance of a and b
RECURSIVE levenshtein(_, _)
levenshtein(a, b) ==
  IF a = b THEN 0
  ELSE IF Len(a) = 0 THEN Len(b)
  ELSE IF Len(b) = 0 THEN Len(a)
  ELSE Minimum(Minimum(levenshtein(Tail(a), b) + 1, levenshtein(a, Tail(b)) + 1),
               levenshtein(Tail(a), Tail(b)) + (IF Head(a) = Head(b) THEN 0 ELSE 1))

NoResolution == [kind |-> "none", tool |-> <<>>]

Resolution(kind, tool) == [kind |-> kind, tool |-> tool]

\* the threshold test on the best candidate
Confident_Always(attempted, bestName, bestScore) == TRUE

Confident(attempted, bestName, bestScore) ==
  LET lengthBaseline ==
        Maximum(Maximum(Len(normalizeToolName(attempted)), Len(normalizeToolName(bestName))), 1)
      threshold == Maximum(2, (lengthBaseline * 3) \div 10)
  IN bestScore <= threshold

\* the loop of chooseClosestToolName from candidate i on; best is the best
\* name so far (<<>>: none) and bestScore its distance
RECURSIVE ChooseFrom(_, _, _, _, _)
ChooseFrom(attempted, candidates, i, bestName, bestScore) ==
  IF i > Len(candidates)
    THEN IF bestName = <<>> THEN NoResolution
         ELSE IF Confident(attempted, bestName, bestScore)
           THEN Resolution("auto-correct", bestName)
         ELSE Resolution("suggest", bestName)
  ELSE LET candidate == candidates[i]
           score == levenshtein(normalizeToolName(attempted), normalizeToolName(candidate))
       IN IF candidate = attempted
            THEN ChooseFrom(attempted, candidates, i + 1, bestName, bestScore)
          ELSE IF normalizeToolName(candidate) = normalizeToolName(attempted)
            THEN Resolution("auto-correct", candidate)
          ELSE IF toLowerCase(candidate) = toLowerCase(attempted)
            THEN Resolution("auto-correct", candidate)
          ELSE IF bestName = <<>> \/ score < bestScore
            THEN ChooseFrom(attempted, candidates, i + 1, candidate, score)
          ELSE ChooseFrom(attempted, candidates, i + 1, bestName, bestScore)

chooseClosestToolName(attempted, candidates) ==
  IF Len(candidates) = 0 THEN NoResolution
  ELSE ChooseFrom(attempted, candidates, 1, <<>>, 0)

\* extractMissingToolFromError and the comparison with the attempted tool
MissingToolMatches(error, attemptedTool) ==
  /\ error.message.text = "Tool <tool> not found"
  /\ normalizeToolName(error.message.tool) = normalizeToolName(attemptedTool)

\* how runtime.listTools(server) ends inside maybeResolveToolName: it fails
\* (the catch yields undefined) or yields the catalog
ListingOutcomes == {[ok |-> FALSE, tools |-> <<>>]} \cup {[ok |-> TRUE, tools |-> c] : c \in Catalogs}

\* maybeResolveToolName once the tools were asked for
maybeResolveToolName(attemptedTool, listed) ==
  IF ~listed.ok THEN NoResolution
  ELSE chooseClosestToolName(attemptedTool, listed.tools)

InitCall ==
  /\ BuilderIdle
  /\ promote = PromoteIdle
  /\ SessionIdle
  /\ runtime = RuntimeIdle
  /\ build = BuildIdle
  /\ scopeCall = ScopeIdle
  /\ refresh = RefreshIdle
  /\ CommandsIdle
  /\ \E s \in CallServers, t \in {<<"l", "I">>, <<"l", "i", "s">>}, ms \in TimeoutMsChoices :
       toolCall = [phase |-> "calling", server |-> s, tool |-> t, timeoutMs |-> ms,
                   allowCorrection |-> TRUE, attempts |-> <<>>,
                   error |-> NoCallError, closes |-> <<>>, closeSettled |-> FALSE,
                   listings |-> <<>>, resolution |-> NoResolution,
                   thrown |-> NoCallError, resolvedTool |-> <<>>]

\* await withTimeout(runtime.callTool(server, tool, {args}), timeoutMs)
WithTimeoutSettles ==
  /\ toolCall.phase = "calling"
  /\ \E o \in WithTimeoutOutcomes(toolCall.tool) :
       LET tried == [toolCall EXCEPT !.attempts = Append(@, [tool |-> toolCall.tool,
                                                             outcome |-> o])]
       IN toolCall' =
            IF o.resolved
              THEN [tried EXCEPT !.phase = "returned", !.resolvedTool = toolCall.tool]
              ELSE [tried EXCEPT !.phase = "caught", !.error = o.error]
  /\ UNCHANGED notCall

\* the catch block on a timeout: runtime.close(server) is invoked
CloseOnTimeout ==
  /\ toolCall.phase = "caught"
  /\ IsTimeout(toolCall.error)
  /\ toolCall' = [toolCall EXCEPT !.phase = "closing",
                                  !.closes = Append(@, toolCall.server)]
  /\ UNCHANGED notCall

\* runtime.close settles, a rejection is swallowed, and the error is thrown
ThrowTimedOut ==
  /\ toolCall.phase = "closing"
  /\ toolCall' = [toolCall EXCEPT
       !.phase = "threw", !.closeSettled = TRUE,
       !.thrown = CallError(TimedOutMessage(toolCall.server, toolCall.tool,
                                            toolCall.timeoutMs), FALSE)]
  /\ UNCHANGED notCall

\* another error with no correction allowed: it is thrown as it is
Rethrow ==
  /\ toolCall.phase = "caught"
  /\ ~IsTimeout(toolCall.error)
  /\ ~toolCall.allowCorrection
  /\ toolCall' = [toolCall EXCEPT !.phase = "threw", !.thrown = toolCall.error]
  /\ UNCHANGED notCall

\* another error on the first attempt: maybeResolveToolName, then the error is
\* thrown or the call is made once more with the corrected name
ResolveToolName ==
  /\ toolCall.phase = "caught"
  /\ ~IsTimeout(toolCall.error)
  /\ toolCall.allowCorrection
  /\ IF ~MissingToolMatches(toolCall.error, toolCall.tool)
       THEN toolCall' = [toolCall EXCEPT !.phase = "threw", !.thrown = toolCall.error]
       ELSE \E listed \in ListingOutcomes :
              LET r == maybeResolveToolName(toolCall.tool, listed)
                  asked == [toolCall EXCEPT !.listings = Append(@, listed),
                                            !.resolution = r]
              IN toolCall' =
                   IF r.kind = "auto-correct"
                     THEN [asked EXCEPT !.phase = "calling", !.tool = r.tool,
                                        !.allowCorrection = FALSE, !.error = NoCallError]
                     ELSE [asked EXCEPT !.phase = "threw", !.thrown = toolCall.error]
  /\ UNCHANGED notCall

NextCall ==
  \/ WithTimeoutSettles
  \/ CloseOnTimeout
  \/ ThrowTimedOut
  \/ Rethrow
  \/ ResolveToolName

SpecCall == InitCall /\ [][NextCall]_vars

\* the timer of the last attempt fired before runtime.callTool settled
CallExpired ==
  /\ toolCall.attempts # <<>>
  /\ LET o == toolCall.attempts[Len(toolCall.attempts)].outcome
     IN ~o.resolved /\ o.error.expired

\* C30: when the tool call did not finish within the timeout, the rejection is
\* the "timed out after <ms>ms" error and runtime.close(server) was invoked
\* before it; when every attempt finished in time, runtime.close is not
\* invoked.
C30_TimeoutClosesServer ==
  /\ (toolCall.phase = "threw" /\ CallExpired) =>
       /\ toolCall.thrown.message =
            TimedOutMessage(toolCall.server, toolCall.tool, toolCall.timeoutMs)
       /\ toolCall.closes = <<toolCall.server>>
  /\ ~CallExpired => toolCall.closes = <<>>

\* what holds: an expired call is rejected with the timed-out error after
\* runtime.close(server) was invoked and had settled, and the close is invoked
\* exactly when the caught error has the message 'Timeout'
C30_CloseOnTimeoutMessage ==
  /\ (toolCall.phase = "threw" /\ CallExpired) =>
       /\ toolCall.thrown.message =
            TimedOutMessage(toolCall.server, toolCall.tool, toolCall.timeoutMs)
       /\ toolCall.closes = <<toolCall.server>>
       /\ toolCall.closeSettled
  /\ toolCall.phase \in {"caught", "calling"} => toolCall.closes = <<>>
  /\ toolCall.closes # <<>> =>
       /\ toolCall.closes = <<toolCall.server>>
       /\ toolCall.error.message = Plain("Timeout")
  /\ (toolCall.phase = "threw" /\ toolCall.error.message = Plain("Timeout")) =>
       toolCall.closes # <<>>

\* the timer fired, the server was closed and the call was rejected
C30_ExpiredWitness ==
  /\ toolCall.phase = "threw"
  /\ CallExpired
  /\ toolCall.closes = <<toolCall.server>>

\* runtime.callTool rejected in time with an Error whose message is 'Timeout':
\* the server was closed and the call is reported as timed out
C30_InTimeClosedWitness ==
  /\ toolCall.phase = "threw"
  /\ ~CallExpired
  /\ toolCall.closes = <<toolCall.server>>
  /\ toolCall.thrown.message =
       TimedOutMessage(toolCall.server, toolCall.tool, toolCall.timeoutMs)

\* ---------------------------------------------------------------------------
\* handleList: listing all servers and listing one server
\* ---------------------------------------------------------------------------

MaxServers == 3

ServerPool == <<"a", "b", "c", "d">>

\* runtime.getDefinitions(): the configured servers in configuration order
Configurations == {SubSeq(ServerPool, 1, n) : n \in 0..MaxServers}

\* how withTimeout(runtime.listTools(...), ms) ends: the tools, an error of
\* listTools of one of the kinds a row tells apart, or the timer firing first
ListOutcomes == {"tools", "auth", "offline", "error", "timeout"}

NoRow == [server |-> "", status |-> "none", outcome |-> "none"]

\* the result of one task and the row rendered from it
ListSummaryResult(server, outcome) ==
  [server |-> server, status |-> IF outcome = "tools" THEN "ok" ELSE "error",
   outcome |-> outcome]

\* the call of runtime.listTools a mode makes
ListToolsCall(server, mode) ==
  IF mode = "all"
    THEN [server |-> server, autoAuthorize |-> FALSE, includeSchema |-> FALSE]
    ELSE [server |-> server, autoAuthorize |-> TRUE, includeSchema |-> TRUE]

\* whether listTools may start the interactive OAuth flow: never with
\* autoAuthorize false
MayAuthorize(call) == call.autoAuthorize

InitList ==
  /\ BuilderIdle
  /\ promote = PromoteIdle
  /\ SessionIdle
  /\ runtime = RuntimeIdle
  /\ build = BuildIdle
  /\ scopeCall = ScopeIdle /\ refresh = RefreshIdle /\ toolCall = CallIdle
  /\ toolFilter = FilterIdle /\ pick = PickIdle /\ envRace = EnvRaceIdle
  /\ \E c \in Configurations, m \in {"all", "single"} :
       /\ m = "single" => Len(c) > 0
       /\ listing = [phase |-> "start", mode |-> m, servers |-> c,
                     target |-> IF m = "single" THEN c[Len(c)] ELSE "",
                     listCalls |-> <<>>,
                     tasks |-> [i \in 1..Len(c) |-> "none"],
                     renderedResults |-> [i \in 1..Len(c) |-> NoRow],
                     completed |-> <<>>, flows |-> {}, closes |-> <<>>,
                     printed |-> "none"]

\* no target and no server configured: "No MCP servers configured."
ListNothing ==
  /\ listing.phase = "start"
  /\ listing.mode = "all"
  /\ Len(listing.servers) = 0
  /\ listing' = [listing EXCEPT !.phase = "done", !.printed = "none configured"]
  /\ UNCHANGED notList

\* servers.map(...): every list request is started up-front
ListAllStart ==
  /\ listing.phase = "start"
  /\ listing.mode = "all"
  /\ Len(listing.servers) > 0
  /\ listing' = [listing EXCEPT
       !.phase = "running",
       !.listCalls = [i \in 1..Len(listing.servers) |->
                        ListToolsCall(listing.servers[i], "all")],
       !.tasks = [i \in 1..Len(listing.servers) |-> "pending"]]
  /\ UNCHANGED notList

\* the row of one task: where it is stored
StoreRow_AtCompletion(rows, index, done, row) == [rows EXCEPT ![done + 1] = row]

StoreRow(rows, index, done, row) == [rows EXCEPT ![index] = row]

\* one task settles, in any order: its try or its catch makes the result, and
\* the then-callback renders the row and stores it at the task's index
ListTaskSettles ==
  /\ listing.phase = "running"
  /\ \E i \in 1..Len(listing.servers), o \in ListOutcomes, flow \in BOOLEAN :
       /\ listing.tasks[i] = "pending"
       /\ flow => MayAuthorize(listing.listCalls[i])
       /\ listing' = [listing EXCEPT
            !.tasks[i] = o,
            !.renderedResults = StoreRow(@, i, Len(listing.completed),
                                         ListSummaryResult(listing.servers[i], o)),
            !.completed = Append(@, i),
            !.flows = IF flow THEN @ \cup {listing.servers[i]} ELSE @]
  /\ UNCHANGED notList

\* await Promise.all(tasks), then the footer
ListAllSummary ==
  /\ listing.phase = "running"
  /\ listing.mode = "all"
  /\ \A i \in 1..Len(listing.servers) : listing.tasks[i] # "pending"
  /\ listing' = [listing EXCEPT !.phase = "done", !.printed = "summary"]
  /\ UNCHANGED notList

\* a target: one list request with schemas
ListSingleStart ==
  /\ listing.phase = "start"
  /\ listing.mode = "single"
  /\ listing' = [listing EXCEPT
       !.phase = "awaiting",
       !.listCalls = <<ListToolsCall(listing.target, "single")>>]
  /\ UNCHANGED notList

\* the request of the one server settles: the tools are printed, or the catch
\* block prints "Tools: <timed out after ...>" and the reason
ListSingleSettles ==
  /\ listing.phase = "awaiting"
  /\ \E o \in ListOutcomes, flow \in BOOLEAN :
       /\ flow => MayAuthorize(listing.listCalls[1])
       /\ listing' = [listing EXCEPT
            !.phase = "done",
            !.tasks[Len(listing.servers)] = o,
            !.completed = <<Len(listing.servers)>>,
            !.printed = IF o = "tools" THEN "tools" ELSE "timed out",
            !.flows = IF flow THEN @ \cup {listing.target} ELSE @]
  /\ UNCHANGED notList

NextList ==
  \/ ListNothing
  \/ ListAllStart
  \/ ListTaskSettles
  \/ ListAllSummary
  \/ ListSingleStart
  \/ ListSingleSettles

SpecList == InitList /\ [][NextList]_vars

\* the servers whose enumeration ran into the list timeout
ListTimedOut == {listing.servers[i] : i \in {j \in 1..Len(listing.servers) :
                                               listing.tasks[j] = "timeout"}}

\* C31: once the enumeration of a server has run into the list timeout,
\* runtime.close was invoked for that server, when all servers are listed and
\* when one server is listed.
C31_ListTimeoutCloses ==
  \A s \in ListTimedOut : \E k \in 1..Len(listing.closes) : listing.closes[k] = s

\* what holds: handleList never invokes runtime.close
C31_ListNeverCloses ==
  listing.closes = <<>>

\* a list of all servers ended with a server that had timed out
C31_AllTimedOutWitness ==
  /\ listing.phase = "done"
  /\ listing.mode = "all"
  /\ ListTimedOut # {}

\* a list of one server ended with the timeout
C31_SingleTimedOutWitness ==
  /\ listing.phase = "done"
  /\ listing.mode = "single"
  /\ ListTimedOut = {listing.target}

\* C37: when all servers are listed, one listTools request per configured
\* server is started before any of them settles, each settled task has its row
\* at the configuration index of its server and made of its own outcome only,
\* a pending task has none, the footer comes when every server has its row,
\* and no request may start the interactive OAuth flow.
C37_OneRowPerServer ==
  (listing.phase \in {"running", "done"} /\ listing.mode = "all" /\ Len(listing.servers) > 0) =>
    /\ Len(listing.listCalls) = Len(listing.servers)
    /\ \A i \in 1..Len(listing.servers) :
         /\ listing.listCalls[i].server = listing.servers[i]
         /\ ~listing.listCalls[i].autoAuthorize
         /\ listing.renderedResults[i] =
              IF listing.tasks[i] = "pending" THEN NoRow
              ELSE ListSummaryResult(listing.servers[i], listing.tasks[i])
         /\ listing.phase = "done" => listing.tasks[i] # "pending"
    /\ listing.flows = {}

\* three servers settled in another order than configured, one of them with
\* a timeout and one with an error, and the footer was printed
C37_Witness ==
  /\ listing.phase = "done"
  /\ listing.mode = "all"
  /\ listing.completed = <<3, 1, 2>>
  /\ listing.tasks = <<"tools", "timeout", "auth">>
  /\ listing.renderedResults[1] = ListSummaryResult("a", "tools")

\* the auto-correct confidence rule of docs/call-heuristic.md: the names
\* differ by case or punctuation only, or their distance is within
\* max(2, floor(0.3 * length))
PassesConfidenceRule(attempted, candidate) ==
  LET a == normalizeToolName(attempted)
      c == normalizeToolName(candidate)
  IN \/ a = c
     \/ levenshtein(a, c) <= Maximum(2, (Maximum(Maximum(Len(a), Len(c)), 1) * 3) \div 10)

InCatalog(tool, catalog) == \E i \in 1..Len(catalog) : catalog[i] = tool

\* C32: runtime.callTool is called at most twice; a second call follows only a
\* first call that failed with "Tool <name> not found" for the attempted name,
\* a tool listing that succeeded and a listed candidate that passes the
\* confidence rule, and it is made with that candidate; the tools are listed
\* at most once, so the retried call is not corrected again; and when the
\* listing failed, found no candidate or only a suggestion, the error of the
\* one call made is the one thrown.
C32_AtMostOneRetry ==
  /\ Len(toolCall.attempts) <= 2
  /\ Len(toolCall.listings) <= 1
  /\ Len(toolCall.attempts) = 2 =>
       LET first == toolCall.attempts[1]
       IN /\ ~first.outcome.resolved
          /\ first.outcome.error.message.text = "Tool <tool> not found"
          /\ normalizeToolName(first.outcome.error.message.tool) = normalizeToolName(first.tool)
          /\ Len(toolCall.listings) = 1
          /\ toolCall.listings[1].ok
          /\ toolCall.attempts[2].tool # first.tool
          /\ InCatalog(toolCall.attempts[2].tool, toolCall.listings[1].tools)
          /\ PassesConfidenceRule(first.tool, toolCall.attempts[2].tool)
          /\ ~toolCall.allowCorrection
  /\ (toolCall.phase = "threw" /\ Len(toolCall.listings) = 1
        /\ toolCall.resolution.kind # "auto-correct") =>
       /\ Len(toolCall.attempts) = 1
       /\ toolCall.thrown = toolCall.attempts[1].outcome.error
  /\ (Len(toolCall.listings) = 1 /\ ~toolCall.listings[1].ok) =>
       toolCall.resolution = NoResolution

\* lI was not found, lis was listed and passed the rule, and the second call
\* returned
C32_Witness ==
  /\ toolCall.phase = "returned"
  /\ Len(toolCall.attempts) = 2
  /\ toolCall.attempts[1].tool = <<"l", "I">>
  /\ toolCall.attempts[2].tool = <<"l", "i", "s">>

\* the only candidate was a suggestion: one call, and its error was thrown
C32_SuggestWitness ==
  /\ toolCall.phase = "threw"
  /\ toolCall.resolution = Resolution("suggest", <<"x", "y", "z", "w">>)
  /\ Len(toolCall.attempts) = 1
  /\ toolCall.thrown = CallError(ToolNotFound(toolCall.tool), FALSE)

\* the retried call failed with "not found" as well and was thrown as it was
C32_RetryNotCorrectedWitness ==
  /\ toolCall.phase = "threw"
  /\ Len(toolCall.attempts) = 2
  /\ toolCall.thrown = CallError(ToolNotFound(toolCall.tool), FALSE)

\* ---------------------------------------------------------------------------
\* listTools: allowedTools and blockedTools
\* ---------------------------------------------------------------------------

MaxTools == 2

\* names of tools a server can offer; "ghost" is offered by no server
OfferedNames == {"read", "write", "exec"}

\* the tools of the server as the MCP client lists them, in order
ServerTools ==
  UNION {{c \in [1..n -> OfferedNames] : \A i, j \in 1..n : i # j => c[i] # c[j]} :
           n \in 0..MaxTools}

\* an optional filter list of the definition
NoFilter == [defined |-> FALSE, names |-> {}]

FilterList(names) == [defined |-> TRUE, names |-> names]

FilterLists ==
  {NoFilter, FilterList({}), FilterList({"read"}), FilterList({"read", "ghost"}),
   FilterList({"ghost"})}

\* the filter of listTools: the allow list alone if set, else the block list
filterTools_BlockedFirst(tools, allowedTools, blockedTools) ==
  IF blockedTools.defined
    THEN SelectSeq(tools, LAMBDA t : t \notin blockedTools.names)
  ELSE IF allowedTools.defined
    THEN SelectSeq(tools, LAMBDA t : t \in allowedTools.names)
  ELSE tools

filterTools(tools, allowedTools, blockedTools) ==
  IF allowedTools.defined
    THEN SelectSeq(tools, LAMBDA t : t \in allowedTools.names)
  ELSE IF blockedTools.defined
    THEN SelectSeq(tools, LAMBDA t : t \notin blockedTools.names)
  ELSE tools

InitFilter ==
  /\ BuilderIdle
  /\ promote = PromoteIdle
  /\ SessionIdle
  /\ runtime = RuntimeIdle
  /\ build = BuildIdle
  /\ scopeCall = ScopeIdle /\ refresh = RefreshIdle /\ toolCall = CallIdle
  /\ listing = ListIdle /\ pick = PickIdle /\ envRace = EnvRaceIdle
  /\ \E tools \in ServerTools, a \in FilterLists, b \in FilterLists :
       toolFilter = [phase |-> "called", serverTools |-> tools,
                     allowedTools |-> a, blockedTools |-> b,
                     returned |-> <<>>]

\* listTools returns the filtered tools
ListToolsReturns ==
  /\ toolFilter.phase = "called"
  /\ toolFilter' = [toolFilter EXCEPT
       !.phase = "returned",
       !.returned = filterTools(toolFilter.serverTools, toolFilter.allowedTools,
                                toolFilter.blockedTools)]
  /\ UNCHANGED notFilter

NextFilter == ListToolsReturns

SpecFilter == InitFilter /\ [][NextFilter]_vars

\* the names of a sequence of tools
NamesOf(tools) == {tools[i] : i \in 1..Len(tools)}

\* tools is what is left of all when only the names of keep stay, in order
IsRestriction(tools, all, keep) ==
  /\ NamesOf(tools) = NamesOf(all) \cap keep
  /\ Len(tools) = Cardinality(NamesOf(tools))
  /\ \A i, j \in 1..Len(tools) :
       i < j => \E k, l \in 1..Len(all) : k < l /\ all[k] = tools[i] /\ all[l] = tools[j]

\* C33: with allowedTools set the result is exactly the server's tools named
\* in it, whatever blockedTools says; otherwise with blockedTools set it is
\* the server's tools not named in it; otherwise all tools; names the server
\* does not offer change nothing: the call returns.
C33_FilterRule ==
  toolFilter.phase = "returned" =>
    LET all == toolFilter.serverTools
        a == toolFilter.allowedTools
        b == toolFilter.blockedTools
    IN /\ a.defined => IsRestriction(toolFilter.returned, all, a.names)
       /\ (~a.defined /\ b.defined) =>
            IsRestriction(toolFilter.returned, all, OfferedNames \ b.names)
       /\ (~a.defined /\ ~b.defined) => toolFilter.returned = all

\* allowedTools and blockedTools both name read, and allowedTools names a
\* tool the server does not offer: read alone is returned
C33_Witness ==
  /\ toolFilter.phase = "returned"
  /\ toolFilter.serverTools = <<"write", "read">>
  /\ toolFilter.allowedTools = FilterList({"read", "ghost"})
  /\ toolFilter.blockedTools = FilterList({"read"})
  /\ toolFilter.returned = <<"read">>

\* an empty allowedTools returns no tool, an empty blockedTools all tools
C33_EmptyAllowedWitness ==
  /\ toolFilter.phase = "returned"
  /\ toolFilter.serverTools = <<"write", "read">>
  /\ toolFilter.allowedTools = FilterList({})
  /\ toolFilter.returned = <<>>

C33_EmptyBlockedWitness ==
  /\ toolFilter.phase = "returned"
  /\ toolFilter.serverTools = <<"write", "read">>
  /\ toolFilter.allowedTools = NoFilter
  /\ toolFilter.blockedTools = FilterList({})
  /\ toolFilter.returned = <<"write", "read">>

\* ---------------------------------------------------------------------------
\* callTool: resultMapping[tool].pick
\* ---------------------------------------------------------------------------

MaxPaths == 3

\* JSON values: a scalar, an object by its keys, an array by its indices
\* ("0", "1", ...); JsonMissing stands for no value
NoKids == [k \in {} |-> 0]

JsonVal(v) == [t |-> "val", v |-> v, kids |-> NoKids]

JsonObj(kids) == [t |-> "obj", v |-> "", kids |-> kids]

JsonArr(kids) == [t |-> "arr", v |-> "", kids |-> kids]

JsonMissing == [t |-> "missing", v |-> "", kids |-> NoKids]

\* the JSON content a server answers with
UserDocument ==
  JsonObj("id" :> JsonVal("user-1") @@ "name" :> JsonVal("Alice") @@
          "profile" :> JsonObj("email" :> JsonVal("alice@example.com") @@
                               "phone" :> JsonVal("555-1234") @@
                               "location" :> JsonObj("city" :> JsonVal("San Francisco") @@
                                                     "country" :> JsonVal("USA"))))

DocumentList ==
  JsonArr("0" :> JsonObj("id" :> JsonVal("1") @@ "title" :> JsonVal("First") @@
                         "content" :> JsonVal("Long...")) @@
          "1" :> JsonObj("id" :> JsonVal("2") @@ "content" :> JsonVal("More...")))

OrderDocument ==
  JsonObj("id" :> JsonVal("order-1") @@
          "items" :> JsonArr("0" :> JsonObj("sku" :> JsonVal("s") @@ "price" :> JsonVal("9")) @@
                             "1" :> JsonObj("price" :> JsonVal("7"))))

Documents == {UserDocument, DocumentList, OrderDocument}

\* dotted paths as their keys
PathPool ==
  {<<"id">>, <<"title">>, <<"profile">>, <<"profile", "email">>,
   <<"profile", "location", "city">>, <<"items", "sku">>, <<"missing">>,
   <<"profile", "missing">>}

PickLists == {ps \in SUBSET PathPool : Cardinality(ps) \in 1..MaxPaths}

\* the projection of a node by the paths that remain at it
RECURSIVE project_NullForAbsent(_, _)
project_NullForAbsent(node, paths) ==
  IF node.t = "arr"
    THEN JsonArr([k \in DOMAIN node.kids |-> project_NullForAbsent(node.kids[k], paths)])
  ELSE IF node.t = "obj"
    THEN LET heads == {Head(p) : p \in paths}
             sub(k) == IF k \notin DOMAIN node.kids THEN JsonVal("null")
                       ELSE IF <<k>> \in paths THEN node.kids[k]
                       ELSE project_NullForAbsent(node.kids[k],
                                                  {Tail(p) : p \in {q \in paths : Head(q) = k}})
             kept == {k \in heads : sub(k) \notin {JsonMissing, JsonObj(NoKids)}
                                     \/ (k \in DOMAIN node.kids /\ <<k>> \in paths)}
         IN JsonObj([k \in kept |-> sub(k)])
  ELSE JsonMissing

RECURSIVE project(_, _)
project(node, paths) ==
  IF node.t = "arr"
    THEN JsonArr([k \in DOMAIN node.kids |-> project(node.kids[k], paths)])
  ELSE IF node.t = "obj"
    THEN LET heads == {Head(p) : p \in paths} \cap DOMAIN node.kids
             sub(k) == IF <<k>> \in paths THEN node.kids[k]
                       ELSE project(node.kids[k],
                                    {Tail(p) : p \in {q \in paths : Head(q) = k}})
             kept == {k \in heads : sub(k) \notin {JsonMissing, JsonObj(NoKids)}
                                     \/ <<k>> \in paths}
         IN JsonObj([k \in kept |-> sub(k)])
  ELSE JsonMissing

\* resultMapping[tool]: no mapping, or a pick list
NoMapping == [defined |-> FALSE, pick |-> {}]

Mapping(paths) == [defined |-> TRUE, pick |-> paths]

\* what callTool returns for the JSON content of the response
applyMapping(json, mapping) ==
  IF mapping.defined THEN project(json, mapping.pick) ELSE json

InitPick ==
  /\ BuilderIdle
  /\ promote = PromoteIdle
  /\ SessionIdle
  /\ runtime = RuntimeIdle
  /\ build = BuildIdle
  /\ scopeCall = ScopeIdle /\ refresh = RefreshIdle /\ toolCall = CallIdle
  /\ listing = ListIdle /\ toolFilter = FilterIdle /\ envRace = EnvRaceIdle
  /\ \E d \in Documents, m \in {NoMapping} \cup {Mapping(ps) : ps \in PickLists} :
       pick = [phase |-> "called", json |-> d, mapping |-> m, returned |-> JsonMissing]

\* the server's response arrives and callTool returns
CallToolReturns ==
  /\ pick.phase = "called"
  /\ pick' = [pick EXCEPT !.phase = "returned",
                          !.returned = applyMapping(pick.json, pick.mapping)]
  /\ UNCHANGED notPick

NextPick == CallToolReturns

SpecPick == InitPick /\ [][NextPick]_vars

\* the value at a position, a sequence of keys and indices
RECURSIVE JsonAt(_, _)
JsonAt(node, pos) ==
  IF pos = <<>> THEN node
  ELSE IF Head(pos) \in DOMAIN node.kids THEN JsonAt(node.kids[Head(pos)], Tail(pos))
  ELSE JsonMissing

RECURSIVE JsonPositions(_)
JsonPositions(node) ==
  {<<>>} \cup UNION {{<<k>> \o q : q \in JsonPositions(node.kids[k])} : k \in DOMAIN node.kids}

\* the position is one the dotted path leads to: an index is taken at every
\* array on the way, the keys of the path at the objects
RECURSIVE PathLeadsTo(_, _, _)
PathLeadsTo(node, path, pos) ==
  IF path = <<>> THEN pos = <<>>
  ELSE IF pos = <<>> \/ Head(pos) \notin DOMAIN node.kids THEN FALSE
  ELSE IF node.t = "arr" THEN PathLeadsTo(node.kids[Head(pos)], path, Tail(pos))
  ELSE /\ node.t = "obj"
       /\ Head(pos) = Head(path)
       /\ PathLeadsTo(node.kids[Head(pos)], Tail(path), Tail(pos))

PickedPositions(json, paths) ==
  {pos \in JsonPositions(json) : \E p \in paths : PathLeadsTo(json, p, pos)}

IsPrefixOf(a, b) == Len(a) <= Len(b) /\ SubSeq(b, 1, Len(a)) = a

ButLast(pos) == SubSeq(pos, 1, Len(pos) - 1)

\* C34: with a pick list, the returned JSON has at every picked position the
\* value the source has there, every node of it has the kind of the source's
\* node at the same position, an array keeps its indices, every entry of an
\* object is on the way to a picked value or inside one, and nothing in it is
\* null or missing; without a mapping the response is returned as it is.
C34_PickProjection ==
  pick.phase = "returned" =>
    IF ~pick.mapping.defined THEN pick.returned = pick.json
    ELSE LET src == pick.json
             out == pick.returned
             found == PickedPositions(src, pick.mapping.pick)
         IN /\ \A pos \in found : JsonAt(out, pos) = JsonAt(src, pos)
            /\ \A pos \in JsonPositions(out) :
                 /\ JsonAt(out, pos).t = JsonAt(src, pos).t
                 /\ JsonAt(out, pos).t = "arr" =>
                      DOMAIN JsonAt(out, pos).kids = DOMAIN JsonAt(src, pos).kids
                 /\ JsonAt(out, pos) # JsonVal("null")
                 /\ (pos # <<>> /\ JsonAt(out, ButLast(pos)).t = "obj") =>
                      \E f \in found : IsPrefixOf(pos, f) \/ IsPrefixOf(f, pos)

\* id, profile.email and profile.location.city picked from the user document:
\* exactly {id, profile: {email, location: {city}}}
C34_Witness ==
  /\ pick.phase = "returned"
  /\ pick.json = UserDocument
  /\ pick.mapping = Mapping({<<"id">>, <<"profile", "email">>,
                             <<"profile", "location", "city">>})
  /\ pick.returned =
       JsonObj("id" :> JsonVal("user-1") @@
               "profile" :> JsonObj("email" :> JsonVal("alice@example.com") @@
                                    "location" :> JsonObj("city" :> JsonVal("San Francisco"))))

\* an array on the path: each element is projected, the element without the
\* key becomes an empty object, and the array keeps both elements
C34_ArrayWitness ==
  /\ pick.phase = "returned"
  /\ pick.json = OrderDocument
  /\ pick.mapping = Mapping({<<"id">>, <<"items", "sku">>})
  /\ pick.returned =
       JsonObj("id" :> JsonVal("order-1") @@
               "items" :> JsonArr("0" :> JsonObj("sku" :> JsonVal("s")) @@
                                  "1" :> JsonObj(NoKids)))

\* a key the source does not have: no entry
C34_AbsentKeyWitness ==
  /\ pick.phase = "returned"
  /\ pick.json = UserDocument
  /\ pick.mapping = Mapping({<<"id">>, <<"missing">>})
  /\ pick.returned = JsonObj("id" :> JsonVal("user-1"))

\* no mapping for the tool
C34_UnmappedWitness ==
  /\ pick.phase = "returned"
  /\ ~pick.mapping.defined
  /\ pick.returned = DocumentList

\* ---------------------------------------------------------------------------
\* createClientContext: the HTTP loop ends
\* ---------------------------------------------------------------------------

\* every await of a build settles: a step that can be taken is taken
SpecLive == Spec /\ WF_vars(Next)

\* a step that enters the loop body again
LoopAgain == iterations >= 1 /\ iterations' = iterations + 1

\* entering the loop body again follows a promotion of a definition that was
\* not oauth, made since the body was entered last
AfterPromotion ==
  LoopAgain =>
    /\ definition.auth # "oauth"
    /\ activeDefinition = [definition EXCEPT !.auth = "oauth"]
    /\ Len(promotedCalls) = iterations

CreateEnded == provider.phase \in {"created", "failed"}

\* the port asked for in the last listen
LastListenCall == listener.listenCalls[Len(listener.listenCalls)]

\* the claim as stated: a port assigned by the system is bound only without a
\* redirect URL and after EADDRINUSE on the stable port, a supplied redirect
\* URL has its host and port bound in one listen, and a failed creation leaves
\* no listener
C36_Original ==
  CreateEnded =>
    /\ (listener.state = "listening" /\ listener.port = OS_ASSIGNED_PORT) =>
         /\ provider.override = NoUrl
         /\ listener.listenResults[1] = "EADDRINUSE"
    /\ (listener.state = "listening" /\ provider.override # NoUrl) =>
         /\ listener.host = provider.override.host
         /\ listener.port = provider.override.port
         /\ Len(listener.listenCalls) = 1
    /\ provider.phase = "failed" => listener.state = "unbound"

\* C36: listen(0), a port assigned by the system, is asked for exactly when no
\* redirect URL was supplied and 127.0.0.1:33418 failed with EADDRINUSE, or
\* when the supplied redirect URL has no port or port 0; a supplied redirect
\* URL has its host bound, and its port when it names one, in one listen
\* without fallback; creation succeeds exactly when the last listen did, and a
\* failed creation leaves no listener.
C36_PortRule ==
  CreateEnded =>
    LET o == provider.override
        calls == listener.listenCalls
        results == listener.listenResults
    IN /\ Len(calls) \in 1..2
       /\ Len(results) = Len(calls)
       /\ calls[1] = IF o = NoUrl THEN DEFAULT_CALLBACK_PORT ELSE o.port
       /\ Len(calls) = 2 <=> (o = NoUrl /\ results[1] = "EADDRINUSE")
       /\ Len(calls) = 2 => calls[2] = 0
       /\ LastListenCall = 0 <=>
            \/ o = NoUrl /\ results[1] = "EADDRINUSE"
            \/ o # NoUrl /\ o.port = 0
       /\ provider.phase = "created" <=> results[Len(results)] = "ok"
       /\ provider.phase = "created" =>
            /\ listener.state = "listening"
            /\ listener.host = (IF o = NoUrl THEN CALLBACK_HOST ELSE o.host)
            /\ listener.port = BoundPort(LastListenCall)
            /\ provider.redirectUrl.port = listener.port
       /\ provider.phase = "failed" => listener.state = "unbound"

\* a redirect URL without a port was supplied and the listener has a port
\* assigned by the system on the host of that URL
C36_Witness ==
  /\ provider.phase = "created"
  /\ provider.override = Url("localhost", 0, "/")
  /\ listener.state = "listening"
  /\ listener.host = "localhost"
  /\ listener.port = OS_ASSIGNED_PORT
  /\ listener.listenCalls = <<0>>

\* the stable port was in use and the fallback bound an assigned port
C36_FallbackWitness ==
  /\ provider.phase = "created"
  /\ provider.override = NoUrl
  /\ listener.listenResults = <<"EADDRINUSE", "ok">>
  /\ listener.port = OS_ASSIGNED_PORT

\* the port of a supplied redirect URL was in use: creation failed
C36_NoFallbackWitness ==
  /\ provider.phase = "failed"
  /\ provider.override = Url("localhost", 8080, "/cb")
  /\ listener.listenResults = <<"EADDRINUSE">>
  /\ listener.state = "unbound"

\* ---------------------------------------------------------------------------
\* createClientContext: the auth provider a transport is given
\* ---------------------------------------------------------------------------

\* a step that constructs a transport
ConstructsTransport == Len(transports') = Len(transports) + 1

\* the session whose provider the transport made in this step is given is
\* open when the step ends
ProviderSessionOpen ==
  ConstructsTransport =>
    LET t == transports'[Len(transports')]
    IN t.authProvider # 0 => ~sessions'[t.authProvider].closed

\* C38: no transport is constructed with the auth provider of a session that
\* was closed, and no connect is started on such a transport.
C38_NoClosedSessionProvider ==
  /\ [][ProviderSessionOpen]_vars
  /\ [](pc = "cwa_connect" =>
          LET t == transports[cwa.transport]
          IN t.authProvider # 0 => ~sessions[t.authProvider].closed)

\* what holds: only the SSE transport made after an unauthorized failure of
\* the streamable attempt gets the provider of a closed session; every
\* streamable transport gets the provider of the session just created
C38_OnlySseAfterUnauthorized ==
  [][ConstructsTransport =>
       LET t == transports'[Len(transports')]
       IN (t.authProvider # 0 /\ sessions'[t.authProvider].closed) =>
            /\ t.kind = "sse"
            /\ isUnauthorizedError(primaryError)
            /\ oauthSession' = 0]_vars

\* the SSE attempt is about to connect with the provider of the session that
\* the catch block has closed, and connectWithAuth was given no session
C38_ClosedProviderWitness ==
  /\ entry = "createClientContext"
  /\ pc = "cwa_connect"
  /\ cwa.caller = "sse"
  /\ cwa.session = 0
  /\ transports[cwa.transport].authProvider # 0
  /\ sessions[transports[cwa.transport].authProvider].closed

\* ---------------------------------------------------------------------------
\* OAuth session: a callback that arrives before waitForAuthorizationCode
\* ---------------------------------------------------------------------------

\* a step that is a call of waitForAuthorizationCode
WaitCalled == callCount'.waits = callCount.waits + 1

\* the deferred of the latest redirectToAuthorization was settled by the
\* callback handler and no waitForAuthorizationCode has returned its promise
DeliveredBeforeWait(d) ==
  /\ d = Len(deferreds)
  /\ lastResponse.seq > 0
  /\ lastResponse.deferred = d
  /\ lastResponse.settle # "none"
  /\ deferreds[d].status = lastResponse.settle
  /\ ~deferreds[d].handedOut

\* C39: a code or an error that the callback handler delivered after
\* redirectToAuthorization and before waitForAuthorizationCode is what the next
\* waitForAuthorizationCode yields.
C39_DeliveredCodeNotLost ==
  [][\A d \in 1..Len(deferreds) :
       (WaitCalled /\ DeliveredBeforeWait(d))
         => LET returned == deferreds'[provider'.authorizationDeferred]
            IN /\ returned.status = deferreds[d].status
               /\ returned.value = deferreds[d].value]_vars

\* what holds: the handler has cleared the field, so the call returns the
\* promise of a deferred it creates itself, which is pending
C39_WaitReturnsFreshPromise ==
  [][\A d \in 1..Len(deferreds) :
       (WaitCalled /\ DeliveredBeforeWait(d))
         => /\ provider.authorizationDeferred = 0
            /\ provider'.authorizationDeferred = Len(deferreds) + 1
            /\ deferreds'[Len(deferreds) + 1].status = "pending"
            /\ deferreds'[Len(deferreds) + 1].handedOut
            /\ deferreds'[d] = deferreds[d]]_vars

\* the code of the callback sits in a deferred nobody holds while the caller
\* waits on another one
C39_LostCodeWitness ==
  \E d \in 1..Len(deferreds) :
    /\ deferreds[d].status = "resolved"
    /\ deferreds[d].value = "code-a"
    /\ ~deferreds[d].handedOut
    /\ lastResponse.deferred = d
    /\ provider.authorizationDeferred = d + 1
    /\ deferreds[d + 1].handedOut
    /\ deferreds[d + 1].status = "pending"

\* the same with an error of the authorization server
C39_LostErrorWitness ==
  \E d \in 1..Len(deferreds) :
    /\ deferreds[d].status = "rejected"
    /\ deferreds[d].value = "OAuth error"
    /\ ~deferreds[d].handedOut
    /\ lastResponse.deferred = d
    /\ provider.authorizationDeferred = d + 1
    /\ deferreds[d + 1].handedOut
    /\ deferreds[d + 1].status = "pending"

\* ---------------------------------------------------------------------------
\* Concurrent createClientContext builds and process.env
\* ---------------------------------------------------------------------------

\* the number of servers whose builds run at the same time
MaxBuilds == 2

\* the servers handleList starts a listTools task for (part_006, lines 195-236)
RaceServers == {ServerPool[i] : i \in 1..MaxBuilds}

\* definition.env of server s: its values carry the name of the server
RaceEnvChoices(s) ==
  {[v \in EnvVars |-> "<none>"],
   [v \in EnvVars |-> IF v = "A" THEN s ELSE "<none>"],
   [v \in EnvVars |-> IF v = "B" THEN s ELSE "<none>"]}

\* the environment no transport has read yet
NoSnapshot == [v \in EnvVars |-> "<not read>"]

HasOverrides(overrides) == \E v \in EnvVars : overrides[v] # "<none>"

\* a build before createClientContext reaches withEnvOverrides
RaceBuild(kind, env) ==
  [phase |-> "called", kind |-> kind, env |-> env, saved |-> NoSnapshot,
   seen |-> NoSnapshot, outcome |-> "none"]

\* every task of handleList has called runtime.listTools; each build is in the
\* prologue of createClientContext (transport.ts, lines 119-154)
InitEnvRace ==
  /\ BuilderIdle
  /\ promote = PromoteIdle
  /\ SessionIdle
  /\ runtime = RuntimeIdle
  /\ build = BuildIdle
  /\ scopeCall = ScopeIdle /\ refresh = RefreshIdle /\ toolCall = CallIdle
  /\ listing = ListIdle /\ toolFilter = FilterIdle /\ pick = PickIdle
  /\ \E penv \in ProcessEnvChoices :
     \E bs \in [RaceServers -> {"stdio", "http"}] :
     \E es \in [RaceServers -> UNION {RaceEnvChoices(s) : s \in RaceServers}] :
       /\ \A s \in RaceServers : es[s] \in RaceEnvChoices(s)
       /\ envRace = [phase |-> "running", processEnv |-> penv, initialEnv |-> penv,
                     overlapped |-> FALSE,
                     builds |-> [s \in RaceServers |-> RaceBuild(bs[s], es[s])]]

\* the builds whose withEnvOverrides scope is open
OpenScopes == {s \in RaceServers : envRace.builds[s].phase \in {"body", "connecting"}}

\* line 156: withEnvOverrides applies the overrides and calls the body, which
\* runs to its first await. The stdio branch builds mergedEnv from process.env
\* and constructs the transport (lines 157-176); the HTTP branch does the same
\* with the headers (line 206) unless it awaits createOAuthSession first (197)
RaceEnter(s) ==
  /\ envRace.phase = "running"
  /\ envRace.builds[s].phase = "called"
  /\ \E awaitsSession \in BOOLEAN :
       LET b == envRace.builds[s]
           applied == applyEnv(envRace.processEnv, b.env)
           reads == b.kind = "stdio" \/ ~awaitsSession
       IN /\ awaitsSession => b.kind = "http"
          /\ envRace' = [envRace EXCEPT
               !.processEnv = applied,
               !.overlapped = @ \/ OpenScopes # {},
               !.builds[s] = [b EXCEPT !.phase = IF reads THEN "connecting" ELSE "body",
                                       !.saved = envRace.processEnv,
                                       !.seen = IF reads THEN applied ELSE NoSnapshot]]
  /\ UNCHANGED notEnvRace

\* the HTTP branch after await createOAuthSession: materializeHeaders resolves
\* the placeholders against process.env as it is now (lines 197-218)
RaceMaterialize(s) ==
  /\ envRace.phase = "running"
  /\ envRace.builds[s].phase = "body"
  /\ envRace' = [envRace EXCEPT !.builds[s].phase = "connecting",
                                !.builds[s].seen = envRace.processEnv]
  /\ UNCHANGED notEnvRace

\* the body returns a context or throws: withEnvOverrides restores what it
\* saved and the build settles
RaceExit(s) ==
  /\ envRace.phase = "running"
  /\ envRace.builds[s].phase = "connecting"
  /\ \E outcome \in {"ok", "error"} :
       LET b == envRace.builds[s]
       IN envRace' = [envRace EXCEPT
            !.processEnv = restoreEnv(envRace.processEnv, b.saved, b.env),
            !.builds[s].phase = "returned",
            !.builds[s].outcome = outcome]
  /\ UNCHANGED notEnvRace

NextEnvRace ==
  \/ \E s \in RaceServers : RaceEnter(s)
  \/ \E s \in RaceServers : RaceMaterialize(s)
  \/ \E s \in RaceServers : RaceExit(s)

SpecEnvRace == InitEnvRace /\ [][NextEnvRace]_vars

AllBuildsReturned ==
  /\ envRace.phase = "running"
  /\ \A s \in RaceServers : envRace.builds[s].phase = "returned"

\* the environment the transport of s was made with holds a value that the
\* overrides of another server put there
SeesForeignOverride(s) ==
  \E v \in EnvVars : envRace.builds[s].seen[v] \in RaceServers \ {s}

\* C40: with builds for different servers running concurrently, no transport
\* is spawned or connected with another build's overrides in effect, and when
\* every build has returned process.env is what it was before the first build.
C40_BuildsIsolated ==
  envRace.phase = "running" =>
    /\ \A s \in RaceServers : ~SeesForeignOverride(s)
    /\ AllBuildsReturned => envRace.processEnv = envRace.initialEnv

\* what holds: builds whose scopes never overlap are isolated, each transport
\* sees the initial environment with its own overrides, and the environment is
\* restored
C40_SequentialBuildsIsolated ==
  (envRace.phase = "running" /\ ~envRace.overlapped) =>
    /\ \A s \in RaceServers :
         envRace.builds[s].seen # NoSnapshot
           => envRace.builds[s].seen = applyEnv(envRace.initialEnv, envRace.builds[s].env)
    /\ AllBuildsReturned => envRace.processEnv = envRace.initialEnv

\* a stdio child is spawned with the override of another server in its
\* environment
C40_ForeignOverrideWitness ==
  /\ envRace.phase = "running"
  /\ \E s \in RaceServers :
       /\ envRace.builds[s].kind = "stdio"
       /\ ~HasOverrides(envRace.builds[s].env)
       /\ SeesForeignOverride(s)

\* every build has returned and a variable keeps the value of an override
C40_NotRestoredWitness ==
  /\ AllBuildsReturned
  /\ envRace.processEnv # envRace.initialEnv

\* builds ran one after the other and left the environment as it was
C40_SequentialWitness ==
  /\ AllBuildsReturned
  /\ ~envRace.overlapped
  /\ \E s \in RaceServers : HasOverrides(envRace.builds[s].env)

====
